---- MODULE Spec2Model ----
(***************************************************************************)
(* Model of the jernel daemon: the interval scheduler (scheduler.go), the  *)
(* PID marker file (pidfile.go), the persisted run state (state.go) and    *)
(* the daemon loop (daemon.go).                                            *)
(*                                                                         *)
(* Several OS processes share one configuration directory, hence one       *)
(* marker file (daemon.pid) and one state file (daemon.state).  Each       *)
(* process owns one Daemon value.  Every action is one step between two    *)
(* points where another process can observe or change the file system or   *)
(* where the clock is read.                                                *)
(*                                                                         *)
(* Time is counted in ticks; a Go time.Duration is an int64 number of      *)
(* nanoseconds, the model scales one hour down to Hour ticks.  The zero    *)
(* time.Time is ZeroTime; the clock starts after it.                       *)
(***************************************************************************)
EXTENDS Integers, Sequences, FiniteSets, TLC

\* ------------------------------------------------------------------ bounds

\* Ticks in one hour (the scale of the clock).
Hour == 4
\* The clock stops advancing here.
MaxTime == 4
\* Work-unit invocations per instance.
MaxCycles == 2
\* Largest value the entropy source delivers.
MaxRand == 3
\* Distinct observations the command-line client makes with IsRunning.
MaxProbes == 2
\* SIGTERMs the command-line client sends with StopRunning.
MaxSignals == 2
\* Largest rate a direct caller passes to the scheduler functions.
MaxRate == 5

\* The daemon processes and their process ids (os.Getpid).
Procs == {11, 12}
\* A pid that belongs to no live process (a previous, crashed instance).
DeadPid == 10
\* The pids a marker file can name.
Pids == Procs \cup {DeadPid}

ZeroTime == 0
NoPid == 0
\* Outcome of the entropy source when rand.Reader fails.
RandFail == -1
RandSource == {RandFail} \cup (0 .. MaxRand)

\* ------------------------------------------------------- scheduler.go

\* PeriodToDuration with the period's name matched without regard to case.
PeriodToDurationAnyCase(period) ==
    CASE period \in {"hour", "Hour"} -> [d |-> Hour, err |-> "none"]
      [] period = "day"  -> [d |-> 24 * Hour, err |-> "none"]
      [] period = "week" -> [d |-> 7 * 24 * Hour, err |-> "none"]
      [] OTHER           -> [d |-> 0, err |-> "InvalidPeriod"]

\* PeriodToDuration: the period's length, or an error for any other string.
PeriodToDuration(period) ==
    CASE period = "hour" -> [d |-> Hour, err |-> "none"]
      [] period = "day"  -> [d |-> 24 * Hour, err |-> "none"]
      [] period = "week" -> [d |-> 7 * 24 * Hour, err |-> "none"]
      [] OTHER           -> [d |-> 0, err |-> "InvalidPeriod"]

\* cryptoRandDuration: a draw in [0, max) from the entropy value rnd.
cryptoRandDuration(max, rnd) ==
    IF max <= 0 THEN [d |-> 0, err |-> "none"]
    ELSE IF rnd = RandFail THEN [d |-> 0, err |-> "rand"]
    ELSE [d |-> rnd % max, err |-> "none"]

\* CalculateNextInterval drawing from [avg/2, 2*avg).
CalculateNextIntervalWide(rate, period, rnd) ==
    IF rate <= 0 THEN [d |-> 0, err |-> "InvalidRate"]
    ELSE LET pd == PeriodToDuration(period) IN
      IF pd.err # "none" THEN [d |-> 0, err |-> pd.err]
      ELSE LET avgInterval == pd.d \div rate
               minInterval == avgInterval \div 2
               maxInterval == 2 * avgInterval
               rangeSize   == maxInterval - minInterval
               randomOffset == cryptoRandDuration(rangeSize, rnd)
           IN IF rangeSize <= 0 THEN [d |-> avgInterval, err |-> "none"]
              ELSE IF randomOffset.err # "none"
                   THEN [d |-> avgInterval, err |-> "none"]
                   ELSE [d |-> minInterval + randomOffset.d, err |-> "none"]

\* CalculateNextInterval with the period checked before the rate.
CalculateNextIntervalPeriodFirst(rate, period, rnd) ==
    LET pd == PeriodToDuration(period) IN
      IF pd.err # "none" THEN [d |-> 0, err |-> pd.err]
      ELSE IF rate <= 0 THEN [d |-> 0, err |-> "InvalidRate"]
      ELSE LET avgInterval == pd.d \div rate
               minInterval == avgInterval \div 2
               maxInterval == avgInterval + avgInterval \div 2
               rangeSize   == maxInterval - minInterval
               randomOffset == cryptoRandDuration(rangeSize, rnd)
           IN IF rangeSize <= 0 THEN [d |-> avgInterval, err |-> "none"]
              ELSE IF randomOffset.err # "none"
                   THEN [d |-> avgInterval, err |-> "none"]
                   ELSE [d |-> minInterval + randomOffset.d, err |-> "none"]

\* CalculateNextInterval passing on the error of the entropy source.
CalculateNextIntervalRandError(rate, period, rnd) ==
    IF rate <= 0 THEN [d |-> 0, err |-> "InvalidRate"]
    ELSE LET pd == PeriodToDuration(period) IN
      IF pd.err # "none" THEN [d |-> 0, err |-> pd.err]
      ELSE LET avgInterval == pd.d \div rate
               minInterval == avgInterval \div 2
               maxInterval == avgInterval + avgInterval \div 2
               rangeSize   == maxInterval - minInterval
               randomOffset == cryptoRandDuration(rangeSize, rnd)
           IN IF rangeSize <= 0 THEN [d |-> avgInterval, err |-> "none"]
              ELSE IF randomOffset.err # "none"
                   THEN [d |-> 0, err |-> randomOffset.err]
                   ELSE [d |-> minInterval + randomOffset.d, err |-> "none"]

\* CalculateNextInterval: rate checked first, then the period, then the draw
\* in [avg/2, avg + avg/2); the average itself when the range is empty or
\* the entropy source fails.
CalculateNextInterval(rate, period, rnd) ==
    IF rate <= 0 THEN [d |-> 0, err |-> "InvalidRate"]
    ELSE LET pd == PeriodToDuration(period) IN
      IF pd.err # "none" THEN [d |-> 0, err |-> pd.err]
      ELSE LET avgInterval == pd.d \div rate
               minInterval == avgInterval \div 2
               maxInterval == avgInterval + avgInterval \div 2
               rangeSize   == maxInterval - minInterval
               randomOffset == cryptoRandDuration(rangeSize, rnd)
           IN IF rangeSize <= 0 THEN [d |-> avgInterval, err |-> "none"]
              ELSE IF randomOffset.err # "none"
                   THEN [d |-> avgInterval, err |-> "none"]
                   ELSE [d |-> minInterval + randomOffset.d, err |-> "none"]

\* CalculateNextTrigger returning the interval counted from the zero time.
CalculateNextTriggerFromZero(rate, period, rnd, clock) ==
    LET interval == CalculateNextInterval(rate, period, rnd) IN
      IF interval.err # "none" THEN [t |-> ZeroTime, err |-> interval.err]
      ELSE [t |-> ZeroTime + interval.d, err |-> "none"]

\* CalculateNextTrigger: time.Now() plus the interval; the zero time on error.
CalculateNextTrigger(rate, period, rnd, clock) ==
    LET interval == CalculateNextInterval(rate, period, rnd) IN
      IF interval.err # "none" THEN [t |-> ZeroTime, err |-> interval.err]
      ELSE [t |-> clock + interval.d, err |-> "none"]

\* The average interval of a valid configuration.
AvgInterval(rate, period) == PeriodToDuration(period).d \div rate

\* ---------------------------------------------------------- pidfile.go

RECURSIVE Digits(_)
\* strconv.Itoa of a non-negative integer, as its sequence of decimal digits.
Digits(n) == IF n < 10 THEN <<n>> ELSE Append(Digits(n \div 10), n % 10)

Itoa(n) == Digits(n)

RECURSIVE AtoiAcc(_, _)
AtoiAcc(s, acc) == IF s = <<>> THEN acc ELSE AtoiAcc(Tail(s), 10 * acc + Head(s))

\* strconv.Atoi: the empty string does not parse.
Atoi(s) == IF s = <<>> THEN [n |-> 0, err |-> "syntax"]
           ELSE [n |-> AtoiAcc(s, 0), err |-> "none"]

\* The marker file: absent, or its bytes (decimal digits).
NoFile == [exists |-> FALSE, bytes |-> <<>>]
FileOf(bytes) == [exists |-> TRUE, bytes |-> bytes]

\* A write of new at offset 0 of a file that holds old: what lies behind the
\* written bytes stays.
WriteAt0(old, new) == new \o SubSeq(old, Len(new) + 1, Len(old))

\* ReadPID of the marker file.
ReadPID(file) ==
    IF ~file.exists THEN [pid |-> 0, err |-> "NotExist"]
    ELSE LET a == Atoi(file.bytes) IN
      IF a.err # "none" THEN [pid |-> 0, err |-> "InvalidPID"]
      ELSE [pid |-> a.n, err |-> "none"]

\* No call of the client has returned yet.
NoResult ==
    [op |-> "none", read |-> NoPid, running |-> FALSE, pid |-> NoPid, err |-> "none"]

\* No function was called directly yet.
NoCall == [fn |-> "none"]

\* ------------------------------------------------------------ state.go

\* json.MarshalIndent of a State: last_persona is dropped when empty
\* (omitempty); a time.Time is a struct and is always written.
MarshalState(s) ==
    IF s.lastPersona = ""
    THEN [pid |-> s.pid, started_at |-> s.startedAt, next_trigger |-> s.nextTrigger,
          entries_generated |-> s.entries, last_entry_at |-> s.lastEntryAt]
    ELSE [pid |-> s.pid, started_at |-> s.startedAt, next_trigger |-> s.nextTrigger,
          entries_generated |-> s.entries, last_entry_at |-> s.lastEntryAt,
          last_persona |-> s.lastPersona]

\* UnmarshalState into a State that starts with the default persona.
UnmarshalStateDefaultPersona(data) ==
    [pid |-> data.pid, startedAt |-> data.started_at,
     nextTrigger |-> data.next_trigger, entries |-> data.entries_generated,
     lastEntryAt |-> data.last_entry_at,
     lastPersona |-> IF "last_persona" \in DOMAIN data THEN data.last_persona
                     ELSE "default"]

\* json.Unmarshal into a zero State: a missing key keeps the zero value.
UnmarshalState(data) ==
    [pid |-> data.pid, startedAt |-> data.started_at,
     nextTrigger |-> data.next_trigger, entries |-> data.entries_generated,
     lastEntryAt |-> data.last_entry_at,
     lastPersona |-> IF "last_persona" \in DOMAIN data THEN data.last_persona ELSE ""]

\* The zero State value; also stands for a nil *State.
ZeroState ==
    [pid |-> NoPid, startedAt |-> ZeroTime, nextTrigger |-> ZeroTime, entries |-> 0,
     lastEntryAt |-> ZeroTime, lastPersona |-> ""]

\* The state file: absent, empty (opened with O_TRUNC and not yet written),
\* holding one marshalled object, or holding one followed by the tail of a
\* longer one that was written before it through another descriptor.
NoStateFile == [kind |-> "absent", data |-> MarshalState(ZeroState)]
EmptyStateFile == [kind |-> "empty", data |-> MarshalState(ZeroState)]
CorruptStateFile == [kind |-> "corrupt", data |-> MarshalState(ZeroState)]
StateFileOf(data) == [kind |-> "json", data |-> data]

\* LoadState with a file that does not parse treated like no file.
LoadStateLenient(file) ==
    IF file.kind \in {"absent", "empty", "corrupt"}
    THEN [found |-> FALSE, state |-> ZeroState, err |-> "none"]
    ELSE [found |-> TRUE, state |-> UnmarshalState(file.data), err |-> "none"]

\* LoadState of the state file: (nil, nil) when absent, a parse error when
\* the bytes are no JSON object, the state otherwise.
LoadState(file) ==
    IF file.kind = "absent" THEN [found |-> FALSE, state |-> ZeroState, err |-> "none"]
    ELSE IF file.kind \in {"empty", "corrupt"}
         THEN [found |-> FALSE, state |-> ZeroState, err |-> "ParseFailed"]
         ELSE [found |-> TRUE, state |-> UnmarshalState(file.data), err |-> "none"]

\* ----------------------------------------------------------- config

\* The configurations a daemon is created with (config.Daemon and
\* config.DefaultPersona): a valid one with a persona pool, a valid one
\* without, one with a bad rate and one with a bad period.
Configs ==
    { [rate |-> 2, period |-> "hour", personas |-> <<"dramatic", "wry">>,
       defaultPersona |-> "default"],
      [rate |-> 2, period |-> "hour", personas |-> <<>>,
       defaultPersona |-> "default"],
      [rate |-> 0, period |-> "hour", personas |-> <<>>,
       defaultPersona |-> "default"],
      [rate |-> 2, period |-> "month", personas |-> <<>>,
       defaultPersona |-> "default"] }

\* ------------------------------------------------------------- state

VARIABLES
    now,        \* the clock (time.Now), in ticks
    cfg,        \* the configuration every daemon is created with
    ioFaulty,   \* whether writes and removals in the config directory can fail
    pidFile,    \* daemon.pid
    stateFile,  \* daemon.state
    pidFd,      \* the processes that hold a descriptor open on the file that
                \* is at the path daemon.pid
    stateFd,    \* the same for daemon.state
    alive,      \* alive[p]: the OS process p exists
    pc,         \* pc[p]: where process p's Start call or loop goroutine stands
    st,         \* st[p]: d.state
    nextTrig,   \* nextTrig[p]: Start's local nextTrigger
    readPid,    \* readPid[p]: the pid that the IsRunning call of p's Start got
                \* from ReadPID and is about to probe
    persona,    \* persona[p]: generateEntry's local personaName
    shutdown,   \* shutdown[p]: d.shutdown is closed
    ctxDone,    \* ctxDone[p]: the context given to Start is cancelled
    done,       \* done[p]: d.done is closed
    startErr,   \* startErr[p]: what Start returned ("none": not returned yet)
    errPid,     \* errPid[p]: the pid named in Start's already-running error
    waited,     \* waited[p]: a Wait call has returned
    invoked,    \* invoked[p]: calls of entry.Generate made so far (history)
    succeeded,  \* succeeded[p]: calls of entry.Generate that returned no error
    quietFrom,  \* quietFrom[p]: invoked[p] when a stop request reached the loop
                \* waiting before its trigger; -1 while there was none (history)
    passed,     \* passed[p]: the personas given to calls of entry.Generate that
                \* returned no error (history)
    earlyStop,  \* earlyStop[p]: a stop request was made before Start returned
                \* (history)
    sigChan,    \* sigChan[p]: signals buffered in the start command's sigChan
    handler,    \* handler[p]: where the start command's signal goroutine stands
    cpc,        \* where the command-line client's IsRunning call stands
    cres,       \* what the client's last IsRunning or StopRunning call returned
    signalled,  \* signalled[pid]: SIGTERMs StopRunning has sent to pid (history)
    seen,       \* what the client's IsRunning calls saw and returned (history)
    fnArg,      \* the function a direct caller called last, with its arguments
    fnRet       \* what that call returned

fsVars == <<pidFile, stateFile>>
fdVars == <<pidFd, stateFd>>
envVars == <<now, cfg, ioFaulty>>
chanVars == <<shutdown, ctxDone, done>>
callVars == <<startErr, errPid, waited>>
histVars == <<invoked, succeeded, quietFrom, passed, earlyStop>>
sigVars == <<sigChan, handler>>
cliVars == <<cpc, cres, signalled, seen>>
fnVars == <<fnArg, fnRet>>
vars == <<now, cfg, ioFaulty, pidFile, stateFile, pidFd, stateFd, alive, pc, st, nextTrig, readPid,
          persona,
          shutdown, ctxDone, done, startErr, errPid, waited, invoked, succeeded,
          quietFrom, passed, earlyStop, sigChan, handler, cpc, cres, signalled, seen,
          fnArg, fnRet>>

\* Whether signal 0 reaches a process with this pid.
ProcessExists(pid) == pid \in Procs /\ alive[pid]

\* The loop goroutine is between its launch and the start of cleanup.
InLoop(p) ==
    pc[p] \in {"loop", "parked", "working", "gen_save", "gen_save_w", "resched",
               "run_save", "run_save_w"}

\* The memory of each process of the set running after daemon.New; the others
\* do not exist.
InitMemory(running) ==
    /\ now = 1
    /\ pidFd = {}
    /\ stateFd = {}
    /\ alive = [p \in Procs |-> p \in running]
    /\ pc = [p \in Procs |-> IF p \in running THEN "idle" ELSE "dead"]
    /\ st = [p \in Procs |-> ZeroState]
    /\ nextTrig = [p \in Procs |-> ZeroTime]
    /\ readPid = [p \in Procs |-> NoPid]
    /\ persona = [p \in Procs |-> ""]
    /\ shutdown = [p \in Procs |-> FALSE]
    /\ ctxDone = [p \in Procs |-> FALSE]
    /\ done = [p \in Procs |-> FALSE]
    /\ startErr = [p \in Procs |-> "none"]
    /\ errPid = [p \in Procs |-> NoPid]
    /\ waited = [p \in Procs |-> FALSE]
    /\ invoked = [p \in Procs |-> 0]
    /\ succeeded = [p \in Procs |-> 0]
    /\ quietFrom = [p \in Procs |-> -1]
    /\ passed = [p \in Procs |-> {}]
    /\ earlyStop = [p \in Procs |-> FALSE]
    /\ sigChan = [p \in Procs |-> 0]
    /\ handler = [p \in Procs |-> "recv"]
    /\ cpc = "idle"
    /\ cres = NoResult
    /\ signalled = [pid \in Pids |-> 0]
    /\ seen = {}
    /\ fnArg = NoCall
    /\ fnRet = NoCall

\* The state after daemon.New in each process of the set running.  The config
\* directory is clean, or holds the marker of an instance that died without
\* cleanup.
InitWith(running) ==
    /\ cfg \in Configs
    /\ ioFaulty \in BOOLEAN
    /\ pidFile \in {NoFile, FileOf(Itoa(DeadPid))}
    /\ stateFile = NoStateFile
    /\ InitMemory(running)

\* Start returns err to its caller; the Daemon value is as before the call.
Return(p, err, pid) ==
    /\ pc' = [pc EXCEPT ![p] = "idle"]
    /\ startErr' = [startErr EXCEPT ![p] = err]
    /\ errPid' = [errPid EXCEPT ![p] = pid]
    /\ UNCHANGED waited

\* ------------------------------------- pidfile.go: IsRunning, by parts

\* IsRunningAfterRead with an absent marker reported as a read error.
IsRunningAfterReadAbsentIsError(r) ==
    [returns |-> r.err # "none", running |-> FALSE, pid |-> NoPid,
     err |-> IF r.err # "none" THEN r.err ELSE "none", stale |-> FALSE]

\* IsRunning, lines 69-75: what the call does with the result r of ReadPID.
\* It returns (false, 0, nil) when there is no marker and (false, 0, err) on
\* any other read error; with a pid it goes on to the signal probe.
IsRunningAfterRead(r) ==
    [returns |-> r.err # "none", running |-> FALSE, pid |-> NoPid,
     err |-> IF r.err = "InvalidPID" THEN r.err ELSE "none", stale |-> FALSE]

\* IsRunningAfterSignal with the state file consulted: a process that
\* answers while the state file is missing is reported as not running.
IsRunningAfterSignalNeedsState(pid, answered) ==
    IF answered /\ stateFile.kind # "absent"
    THEN [running |-> TRUE, pid |-> pid, err |-> "none", stale |-> FALSE]
    ELSE [running |-> FALSE, pid |-> NoPid, err |-> "none", stale |-> ~answered]

\* IsRunning, lines 83-90: what the call does with the answer to signal 0
\* sent to pid.  (true, pid, nil) when the process answered; otherwise the
\* marker is stale, to be removed, and the call returns (false, 0, nil).
IsRunningAfterSignal(pid, answered) ==
    IF answered
    THEN [running |-> TRUE, pid |-> pid, err |-> "none", stale |-> FALSE]
    ELSE [running |-> FALSE, pid |-> NoPid, err |-> "none", stale |-> TRUE]

\* What an IsRunning call returns when nothing else runs between its calls
\* of ReadPID and Signal, and whether it removes the marker as stale.
IsRunning(file) ==
    LET r == ReadPID(file)
        a == IsRunningAfterRead(r) IN
      IF a.returns THEN a
      ELSE IsRunningAfterSignal(r.pid, ProcessExists(r.pid))

\* ------------------------------------------------- daemon.go: Start

\* Start, lines 38-44, and IsRunning, lines 69-75: the call of ReadPID.  With
\* no marker IsRunning returns (false, 0, nil) and Start goes on to WritePID;
\* a marker that does not parse makes Start return the wrapped error; a pid
\* is kept for the signal probe.
StartIsRunning(p) ==
    /\ alive[p] /\ pc[p] = "idle" /\ startErr[p] = "none"
    /\ LET a == IsRunningAfterRead(ReadPID(pidFile)) IN
         IF ~a.returns
         THEN /\ pc' = [pc EXCEPT ![p] = "probe_sig"]
              /\ readPid' = [readPid EXCEPT ![p] = ReadPID(pidFile).pid]
              /\ UNCHANGED callVars
         ELSE IF a.err # "none"
         THEN /\ Return(p, "CheckFailed", NoPid)
              /\ UNCHANGED readPid
         ELSE /\ pc' = [pc EXCEPT ![p] = "write_pid"]
              /\ UNCHANGED <<readPid, callVars>>
    /\ UNCHANGED <<envVars, fdVars, fnVars, cliVars, sigVars, fsVars, alive, st, nextTrig, persona, chanVars, histVars>>

\* StartSignal with the answer of the probe ignored: a process that answers
\* is treated like one that is gone.
StartSignalUnchecked(p) ==
    /\ alive[p] /\ pc[p] = "probe_sig"
    /\ pc' = [pc EXCEPT ![p] = "stale_rm"]
    /\ readPid' = [readPid EXCEPT ![p] = NoPid]
    /\ UNCHANGED <<envVars, fdVars, fnVars, cliVars, sigVars, fsVars, alive, st, nextTrig, persona, chanVars,
                   callVars, histVars>>

\* IsRunning, lines 78-90, and Start, lines 42-44: signal 0 to the pid that
\* was read.  A process that answers makes IsRunning return (true, pid) and
\* Start return the already-running error; otherwise the marker is stale.
StartSignal(p) ==
    /\ alive[p] /\ pc[p] = "probe_sig"
    /\ LET a == IsRunningAfterSignal(readPid[p], ProcessExists(readPid[p])) IN
         IF a.running
         THEN Return(p, "AlreadyRunning", a.pid)
         ELSE /\ pc' = [pc EXCEPT ![p] = "stale_rm"]
              /\ UNCHANGED callVars
    /\ readPid' = [readPid EXCEPT ![p] = NoPid]
    /\ UNCHANGED <<envVars, fdVars, fnVars, cliVars, sigVars, fsVars, alive, st, nextTrig, persona, chanVars, histVars>>

\* IsRunning, lines 84-88: the recorded process is gone, remove the stale
\* marker (the result of RemovePID is dropped) and report not running.
StartRemoveStale(p) ==
    /\ alive[p] /\ pc[p] = "stale_rm"
    /\ \/ pidFile' = NoFile
       \/ ioFaulty /\ pidFile' = pidFile
    /\ pc' = [pc EXCEPT ![p] = "write_pid"]
    /\ pidFd' = (IF pidFile'.exists THEN pidFd ELSE {})
    /\ UNCHANGED <<envVars, readPid, stateFd, fnVars, cliVars, sigVars, stateFile, alive, st, nextTrig, persona, chanVars,
                   callVars, histVars>>

\* WritePID, os.WriteFile's open with O_CREATE|O_TRUNC: the marker exists and
\* is empty, and p holds a descriptor on it (on the file that was there, or
\* on a new one); or the open fails and Start returns the error.
WritePIDOpen(p) ==
    /\ alive[p] /\ pc[p] = "write_pid"
    /\ \/ /\ pidFile' = FileOf(<<>>)
          /\ pidFd' = pidFd \cup {p}
          /\ pc' = [pc EXCEPT ![p] = "write_pid_w"]
          /\ UNCHANGED callVars
       \/ /\ ioFaulty
          /\ pidFile' = pidFile
          /\ pidFd' = pidFd
          /\ Return(p, "WritePIDFailed", NoPid)
    /\ UNCHANGED <<envVars, readPid, stateFd, fnVars, cliVars, sigVars, stateFile, alive, st, nextTrig, persona, chanVars, histVars>>

\* WritePID, os.WriteFile's write of strconv.Itoa(os.Getpid()) at offset 0
\* through the descriptor, and its close.  The bytes reach the file at the
\* path only when that is still the file that was opened: after a removal
\* they go to the unlinked file and the path stays as it is, and the write
\* returns no error either way.  Or the write fails, the file stays as it
\* is and Start returns the error.
WritePIDWrite(p) ==
    /\ alive[p] /\ pc[p] = "write_pid_w"
    /\ pidFd' = pidFd \ {p}
    /\ \/ /\ pidFile' = IF p \in pidFd /\ pidFile.exists
                         THEN FileOf(WriteAt0(pidFile.bytes, Itoa(p)))
                         ELSE pidFile
          /\ pc' = [pc EXCEPT ![p] = "calc"]
          /\ UNCHANGED callVars
       \/ /\ ioFaulty
          /\ pidFile' = pidFile
          /\ Return(p, "WritePIDFailed", NoPid)
    /\ UNCHANGED <<envVars, readPid, stateFd, fnVars, cliVars, sigVars, stateFile, alive, st, nextTrig, persona, chanVars, histVars>>

\* Start, lines 52-56: the first trigger, from the clock and a random draw.
StartCalculate(p) ==
    /\ alive[p] /\ pc[p] = "calc"
    /\ \E rnd \in RandSource :
         LET r == CalculateNextTrigger(cfg.rate, cfg.period, rnd, now) IN
           IF r.err # "none"
           THEN /\ pc' = [pc EXCEPT ![p] = "calc_rm"]
                /\ UNCHANGED nextTrig
           ELSE /\ pc' = [pc EXCEPT ![p] = "init_state"]
                /\ nextTrig' = [nextTrig EXCEPT ![p] = r.t]
    /\ UNCHANGED <<envVars, readPid, fdVars, fnVars, cliVars, sigVars, fsVars, alive, st, persona, chanVars, callVars, histVars>>

\* StartInitState with the counters of a state file found on disk carried
\* over into the new state.
StartInitStateResumed(p) ==
    /\ alive[p] /\ pc[p] = "init_state"
    /\ LET l == LoadState(stateFile) IN
         st' = [st EXCEPT ![p] =
                  [pid |-> p, startedAt |-> now, nextTrigger |-> nextTrig[p],
                   entries |-> l.state.entries,
                   lastEntryAt |-> l.state.lastEntryAt,
                   lastPersona |-> l.state.lastPersona]]
    /\ pc' = [pc EXCEPT ![p] = "start_save"]
    /\ UNCHANGED <<envVars, readPid, fdVars, fnVars, cliVars, sigVars, fsVars, alive, nextTrig, persona, chanVars, callVars,
                   histVars>>

\* Start, lines 58-63: the initial state, StartedAt from a second clock read.
StartInitState(p) ==
    /\ alive[p] /\ pc[p] = "init_state"
    /\ st' = [st EXCEPT ![p] =
                [pid |-> p, startedAt |-> now, nextTrigger |-> nextTrig[p],
                 entries |-> 0, lastEntryAt |-> ZeroTime, lastPersona |-> ""]]
    /\ pc' = [pc EXCEPT ![p] = "start_save"]
    /\ UNCHANGED <<envVars, readPid, fdVars, fnVars, cliVars, sigVars, fsVars, alive, nextTrig, persona, chanVars, callVars,
                   histVars>>

\* Start, lines 54-55 and 66-67: RemovePID (result dropped), then the error.
StartAbort(p) ==
    /\ alive[p] /\ pc[p] \in {"calc_rm", "start_save_rm"}
    /\ \/ pidFile' = NoFile
       \/ ioFaulty /\ pidFile' = pidFile
    /\ Return(p, IF pc[p] = "calc_rm" THEN "CalcFailed" ELSE "SaveFailed", NoPid)
    /\ pidFd' = (IF pidFile'.exists THEN pidFd ELSE {})
    /\ UNCHANGED <<envVars, readPid, stateFd, fnVars, cliVars, sigVars, stateFile, alive, st, nextTrig, persona, chanVars, histVars>>

\* Start, line 75: `go d.run(ctx)` launches the loop goroutine.  From here
\* pc[p] is the goroutine's position; Start itself has its return left.
StartLaunch(p) ==
    /\ alive[p] /\ pc[p] = "launch"
    /\ pc' = [pc EXCEPT ![p] = "loop"]
    /\ UNCHANGED <<envVars, readPid, fdVars, fnVars, cliVars, sigVars, fsVars, alive, st, nextTrig, persona, chanVars,
                   callVars, histVars>>

\* The positions of the loop goroutine, from its launch to its end.
Launched(p) == InLoop(p) \/ pc[p] \in {"cleanup", "cleanup_state", "stopped"}

\* Start, line 77: `return nil`, a step of the caller that the goroutine's
\* steps can precede.
StartReturn(p) ==
    /\ alive[p] /\ Launched(p) /\ startErr[p] = "none"
    /\ startErr' = [startErr EXCEPT ![p] = "ok"]
    /\ UNCHANGED <<envVars, readPid, fdVars, fnVars, cliVars, sigVars, fsVars, alive, pc, st, nextTrig, persona, chanVars,
                   errPid, waited, histVars>>

\* ------------------------------------------------ state.go: SaveState

\* The three calls of SaveState: in Start, in generateEntry and in run.
SaveSites == {"start_save", "gen_save", "run_save"}
WriteSite(site) ==
    CASE site = "start_save" -> "start_save_w"
      [] site = "gen_save" -> "gen_save_w"
      [] site = "run_save" -> "run_save_w"
OpenSite(w) ==
    CASE w = "start_save_w" -> "start_save"
      [] w = "gen_save_w" -> "gen_save"
      [] w = "run_save_w" -> "run_save"
\* AfterSave with Start going on after a failed save, as the loop does.
AfterSaveIgnoringError(site, ok) ==
    CASE site = "start_save" -> "launch"
      [] site = "gen_save" -> "resched"
      [] site = "run_save" -> "loop"

\* AfterSave with the loop ending on a failed save, as Start does.
AfterSaveStopsLoop(site, ok) ==
    CASE site = "start_save" -> IF ok THEN "launch" ELSE "start_save_rm"
      [] site = "gen_save" -> IF ok THEN "resched" ELSE "cleanup"
      [] site = "run_save" -> IF ok THEN "loop" ELSE "cleanup"

\* Where the caller goes on with SaveState's result: Start gives up on an
\* error, generateEntry and run only log it.
AfterSave(site, ok) ==
    CASE site = "start_save" -> IF ok THEN "launch" ELSE "start_save_rm"
      [] site = "gen_save" -> "resched"
      [] site = "run_save" -> "loop"

\* SaveState, os.WriteFile's open with O_CREATE|O_TRUNC: the state file
\* exists and is empty; or the open fails.
SaveStateOpen(p) ==
    /\ alive[p] /\ pc[p] \in SaveSites
    /\ \/ /\ stateFile' = EmptyStateFile
          /\ stateFd' = stateFd \cup {p}
          /\ pc' = [pc EXCEPT ![p] = WriteSite(pc[p])]
       \/ /\ ioFaulty
          /\ stateFile' = stateFile
          /\ stateFd' = stateFd
          /\ pc' = [pc EXCEPT ![p] = AfterSave(pc[p], FALSE)]
    /\ UNCHANGED <<envVars, readPid, pidFd, fnVars, cliVars, sigVars, pidFile, alive, st, nextTrig, persona, chanVars, callVars,
                   histVars>>

\* What the state file at the path holds after a write of data at offset 0
\* through a descriptor of p.  A file removed since the open is not reached.
\* A file that another descriptor has written since p's open keeps the tail
\* of those bytes when they are longer than p's, which no longer parses; the
\* lengths depend on the digits of the timestamps, so either can happen.
StateWritten(p, data) ==
    IF ~(p \in stateFd) \/ stateFile.kind = "absent" THEN {stateFile}
    ELSE IF stateFile.kind = "empty" \/ stateFile = StateFileOf(data)
         THEN {StateFileOf(data)}
         ELSE {StateFileOf(data), CorruptStateFile}

\* SaveState, os.WriteFile's write of the marshalled d.state through the
\* descriptor, and its close; the write returns no error whether or not the
\* bytes reach the file at the path.  Or the write fails and the file stays
\* as it is.
SaveStateWrite(p) ==
    /\ alive[p] /\ pc[p] \in {WriteSite(s) : s \in SaveSites}
    /\ stateFd' = stateFd \ {p}
    /\ \/ /\ stateFile' \in StateWritten(p, MarshalState(st[p]))
          /\ pc' = [pc EXCEPT ![p] = AfterSave(OpenSite(pc[p]), TRUE)]
       \/ /\ ioFaulty
          /\ stateFile' = stateFile
          /\ pc' = [pc EXCEPT ![p] = AfterSave(OpenSite(pc[p]), FALSE)]
    /\ UNCHANGED <<envVars, readPid, pidFd, fnVars, cliVars, sigVars, pidFile, alive, st, nextTrig, persona, chanVars, callVars,
                   histVars>>

\* --------------------------------------------------- daemon.go: run

\* selectPersona falling back to the default persona on an entropy failure.
selectPersonaDefaultOnError(c, rnd) ==
    IF Len(c.personas) = 0 THEN c.defaultPersona
    ELSE IF Len(c.personas) = 1 THEN c.personas[1]
    ELSE IF rnd = RandFail THEN c.defaultPersona
    ELSE c.personas[(rnd % Len(c.personas)) + 1]

\* selectPersona: the default with no pool, the only member of a pool of
\* one, the first on an entropy failure, else the drawn member.
selectPersona(c, rnd) ==
    IF Len(c.personas) = 0 THEN c.defaultPersona
    ELSE IF Len(c.personas) = 1 THEN c.personas[1]
    ELSE IF rnd = RandFail THEN c.personas[1]
    ELSE c.personas[(rnd % Len(c.personas)) + 1]

\* The timer case of run's select: time.After(max(0, time.Until(NextTrigger))).
TimerReady(p) == now >= st[p].nextTrigger
\* The two cancellation cases of run's select.
CancelReady(p) == ctxDone[p] \/ shutdown[p]

\* run, lines 101-103, and generateEntry, lines 127-132: the timer case was
\* taken, a persona is selected and entry.Generate is called.
InvokeWorkUnit(p) ==
    /\ invoked[p] < MaxCycles
    /\ \E rnd \in RandSource : persona' = [persona EXCEPT ![p] = selectPersona(cfg, rnd)]
    /\ invoked' = [invoked EXCEPT ![p] = @ + 1]
    /\ pc' = [pc EXCEPT ![p] = "working"]
    /\ UNCHANGED <<succeeded, quietFrom, passed, earlyStop>>

\* LoopSelect with the cancellation cases left out of the select.
LoopSelectIgnoresCancel(p) ==
    /\ alive[p] /\ pc[p] = "loop"
    /\ \/ /\ TimerReady(p)
          /\ InvokeWorkUnit(p)
       \/ /\ ~TimerReady(p)
          /\ pc' = [pc EXCEPT ![p] = "parked"]
          /\ UNCHANGED <<persona, histVars>>
    /\ UNCHANGED <<envVars, readPid, fdVars, fnVars, cliVars, sigVars, fsVars, alive, st, nextTrig, chanVars, callVars>>

\* run, lines 87-101: the select statement is reached.  A case that is ready is
\* taken, any one of them when several are; with none ready the goroutine
\* parks on all three channels.
LoopSelect(p) ==
    /\ alive[p] /\ pc[p] = "loop"
    /\ \/ /\ CancelReady(p)
          /\ pc' = [pc EXCEPT ![p] = "cleanup"]
          /\ UNCHANGED <<persona, histVars>>
       \/ /\ TimerReady(p)
          /\ InvokeWorkUnit(p)
       \/ /\ ~CancelReady(p) /\ ~TimerReady(p)
          /\ pc' = [pc EXCEPT ![p] = "parked"]
          /\ UNCHANGED <<persona, histVars>>
    /\ UNCHANGED <<envVars, readPid, fdVars, fnVars, cliVars, sigVars, fsVars, alive, st, nextTrig, chanVars, callVars>>

\* run, line 101: the timer fires and wakes the parked goroutine.
TimerFire(p) ==
    /\ alive[p] /\ pc[p] = "parked"
    /\ TimerReady(p)
    /\ InvokeWorkUnit(p)
    /\ UNCHANGED <<envVars, readPid, fdVars, fnVars, cliVars, sigVars, fsVars, alive, st, nextTrig, chanVars, callVars>>

\* WorkUnitReturn with an error sending the loop straight back to its select,
\* without a new trigger.
WorkUnitReturnRetryNow(p) ==
    /\ alive[p] /\ pc[p] = "working"
    /\ \/ /\ st' = [st EXCEPT ![p].entries = @ + 1,
                              ![p].lastEntryAt = now,
                              ![p].lastPersona = persona[p]]
          /\ succeeded' = [succeeded EXCEPT ![p] = @ + 1]
          /\ passed' = [passed EXCEPT ![p] = @ \cup {persona[p]}]
          /\ pc' = [pc EXCEPT ![p] = "gen_save"]
       \/ /\ pc' = [pc EXCEPT ![p] = "loop"]
          /\ UNCHANGED <<st, succeeded, passed>>
    /\ UNCHANGED <<envVars, readPid, fdVars, fnVars, cliVars, sigVars, fsVars, alive, nextTrig, persona, chanVars, callVars,
                   invoked, quietFrom, earlyStop>>

\* WorkUnitReturn with the state updated before the error is looked at.
WorkUnitReturnCountsFailure(p) ==
    /\ alive[p] /\ pc[p] = "working"
    /\ st' = [st EXCEPT ![p].entries = @ + 1,
                        ![p].lastEntryAt = now,
                        ![p].lastPersona = persona[p]]
    /\ \/ /\ succeeded' = [succeeded EXCEPT ![p] = @ + 1]
          /\ passed' = [passed EXCEPT ![p] = @ \cup {persona[p]}]
          /\ pc' = [pc EXCEPT ![p] = "gen_save"]
       \/ /\ pc' = [pc EXCEPT ![p] = "resched"]
          /\ UNCHANGED <<succeeded, passed>>
    /\ UNCHANGED <<envVars, readPid, fdVars, fnVars, cliVars, sigVars, fsVars, alive, nextTrig, persona, chanVars, callVars,
                   invoked, quietFrom, earlyStop>>

\* generateEntry, lines 132-140: entry.Generate returns.  An error goes back
\* to run; a success is counted in d.state.
WorkUnitReturn(p) ==
    /\ alive[p] /\ pc[p] = "working"
    /\ \/ /\ st' = [st EXCEPT ![p].entries = @ + 1,
                              ![p].lastEntryAt = now,
                              ![p].lastPersona = persona[p]]
          /\ succeeded' = [succeeded EXCEPT ![p] = @ + 1]
          /\ passed' = [passed EXCEPT ![p] = @ \cup {persona[p]}]
          /\ pc' = [pc EXCEPT ![p] = "gen_save"]
       \/ /\ pc' = [pc EXCEPT ![p] = "resched"]
          /\ UNCHANGED <<st, succeeded, passed>>
    /\ UNCHANGED <<envVars, readPid, fdVars, fnVars, cliVars, sigVars, fsVars, alive, nextTrig, persona, chanVars, callVars,
                   invoked, quietFrom, earlyStop>>

\* run, lines 108-114: the next trigger from the clock and a random draw; on
\* an error the loop continues with the old trigger and saves nothing.
Reschedule(p) ==
    /\ alive[p] /\ pc[p] = "resched"
    /\ \E rnd \in RandSource :
         LET r == CalculateNextTrigger(cfg.rate, cfg.period, rnd, now) IN
           IF r.err # "none"
           THEN /\ pc' = [pc EXCEPT ![p] = "loop"]
                /\ UNCHANGED st
           ELSE /\ pc' = [pc EXCEPT ![p] = "run_save"]
                /\ st' = [st EXCEPT ![p].nextTrigger = r.t]
    /\ UNCHANGED <<envVars, readPid, fdVars, fnVars, cliVars, sigVars, fsVars, alive, nextTrig, persona, chanVars, callVars,
                   histVars>>

\* The process p ends without running any more code: its memory is gone, the
\* files stay as they are.  how is "dead" for a kill, a crash or an exit from
\* main, "panicked" for a panic of the Go runtime.
HaltMemory(p, how) ==
    /\ alive' = [alive EXCEPT ![p] = FALSE]
    /\ pc' = [pc EXCEPT ![p] = how]
    /\ st' = [st EXCEPT ![p] = ZeroState]
    /\ nextTrig' = [nextTrig EXCEPT ![p] = ZeroTime]
    /\ readPid' = [readPid EXCEPT ![p] = NoPid]
    /\ persona' = [persona EXCEPT ![p] = ""]
    /\ shutdown' = [shutdown EXCEPT ![p] = FALSE]
    /\ ctxDone' = [ctxDone EXCEPT ![p] = FALSE]
    /\ done' = [done EXCEPT ![p] = FALSE]
    /\ startErr' = [startErr EXCEPT ![p] = "none"]
    /\ errPid' = [errPid EXCEPT ![p] = NoPid]
    /\ waited' = [waited EXCEPT ![p] = FALSE]
    /\ invoked' = [invoked EXCEPT ![p] = 0]
    /\ succeeded' = [succeeded EXCEPT ![p] = 0]
    /\ quietFrom' = [quietFrom EXCEPT ![p] = -1]
    /\ passed' = [passed EXCEPT ![p] = {}]
    /\ earlyStop' = [earlyStop EXCEPT ![p] = FALSE]
    /\ sigChan' = [sigChan EXCEPT ![p] = 0]
    /\ handler' = [handler EXCEPT ![p] = "recv"]

\* The same, seen from the rest of the system.
Halt(p, how) ==
    /\ HaltMemory(p, how)
    /\ pidFd' = pidFd \ {p}
    /\ stateFd' = stateFd \ {p}
    /\ UNCHANGED <<envVars, fnVars, cliVars, fsVars>>

\* CleanupRemovePID with cleanup given up when the marker cannot be removed.
CleanupRemovePIDOrGiveUp(p) ==
    /\ alive[p] /\ pc[p] = "cleanup"
    /\ \/ /\ pidFile' = NoFile
          /\ pc' = [pc EXCEPT ![p] = "cleanup_state"]
          /\ UNCHANGED done
       \/ /\ ioFaulty /\ pidFile' = pidFile
          /\ pc' = [pc EXCEPT ![p] = "stopped"]
          /\ done' = [done EXCEPT ![p] = TRUE]
    /\ pidFd' = (IF pidFile'.exists THEN pidFd ELSE {})
    /\ UNCHANGED <<envVars, readPid, stateFd, fnVars, cliVars, sigVars, stateFile, alive, st, nextTrig, persona,
                   shutdown, ctxDone, callVars, histVars>>

\* cleanup, lines 189-191: RemovePID; a failure is logged.
CleanupRemovePID(p) ==
    /\ alive[p] /\ pc[p] = "cleanup"
    /\ \/ pidFile' = NoFile
       \/ ioFaulty /\ pidFile' = pidFile
    /\ pc' = [pc EXCEPT ![p] = "cleanup_state"]
    /\ pidFd' = (IF pidFile'.exists THEN pidFd ELSE {})
    /\ UNCHANGED <<envVars, readPid, stateFd, fnVars, cliVars, sigVars, stateFile, alive, st, nextTrig, persona, chanVars,
                   callVars, histVars>>

\* CleanupRemoveState with the removal of the state file left out.
CleanupKeepState(p) ==
    /\ alive[p] /\ pc[p] = "cleanup_state"
    /\ stateFile' = stateFile
    /\ done' = [done EXCEPT ![p] = TRUE]
    /\ pc' = [pc EXCEPT ![p] = "stopped"]
    /\ UNCHANGED <<envVars, readPid, fdVars, fnVars, cliVars, sigVars, pidFile, alive, st, nextTrig, persona, shutdown, ctxDone,
                   callVars, histVars>>

\* cleanup, lines 193-195, then run's deferred close(d.done).  Closing a
\* closed channel panics, which ends the process.
CleanupRemoveState(p) ==
    /\ alive[p] /\ pc[p] = "cleanup_state"
    /\ \/ stateFile' = NoStateFile
       \/ ioFaulty /\ stateFile' = stateFile
    /\ stateFd' = (IF stateFile'.kind = "absent" THEN {} ELSE stateFd)
    /\ IF done[p]
       THEN /\ HaltMemory(p, "panicked")
            /\ UNCHANGED <<envVars, fnVars, cliVars, pidFile, pidFd>>
       ELSE /\ done' = [done EXCEPT ![p] = TRUE]
            /\ pc' = [pc EXCEPT ![p] = "stopped"]
            /\ UNCHANGED <<envVars, readPid, pidFd, fnVars, cliVars, sigVars, pidFile, alive, st, nextTrig,
                           persona, shutdown, ctxDone, callVars, histVars>>

\* ------------------------------------------- daemon.go: Stop, Wait

\* Wake for a loop that waits on its timer alone and looks at the stop
\* request only when it comes back to the top of the loop.
WakeAtNextTurn(p) ==
    /\ pc' = pc
    /\ quietFrom' = [quietFrom EXCEPT ![p] =
                       IF pc[p] = "parked" /\ ~TimerReady(p) /\ @ = -1
                       THEN invoked[p] ELSE @]
    /\ earlyStop' = [earlyStop EXCEPT ![p] = @ \/ startErr[p] = "none"]
    /\ UNCHANGED <<invoked, succeeded, passed>>

\* A stop request reaches the loop: a goroutine parked in the select is woken
\* through the cancellation case, whatever becomes ready later.
Wake(p) ==
    /\ pc' = [pc EXCEPT ![p] = IF pc[p] = "parked" THEN "cleanup" ELSE @]
    /\ quietFrom' = [quietFrom EXCEPT ![p] =
                       IF pc[p] = "parked" /\ ~TimerReady(p) /\ @ = -1
                       THEN invoked[p] ELSE @]
    /\ earlyStop' = [earlyStop EXCEPT ![p] = @ \/ startErr[p] = "none"]
    /\ UNCHANGED <<invoked, succeeded, passed>>

Die(p) == Halt(p, "dead")

\* The body of Stop, close(d.shutdown), called with the signal goroutine going
\* on at h.  Closing a closed channel panics, which ends the process.
StopCall(p, h) ==
    IF shutdown[p]
    THEN Halt(p, "panicked")
    ELSE /\ shutdown' = [shutdown EXCEPT ![p] = TRUE]
         /\ Wake(p)
         /\ handler' = [handler EXCEPT ![p] = h]
         /\ UNCHANGED <<envVars, readPid, fdVars, fnVars, cliVars, sigChan, fsVars, alive, st, nextTrig,
                        persona, ctxDone, done, callVars>>

\* Stop, called by any goroutine that holds the Daemon.
Stop(p) ==
    /\ alive[p]
    /\ StopCall(p, handler[p])

\* The cancel function of the context given to Start; a second call does
\* nothing.
CancelCall(p, h) ==
    /\ ctxDone' = [ctxDone EXCEPT ![p] = TRUE]
    /\ IF ctxDone[p] THEN UNCHANGED <<pc, histVars>> ELSE Wake(p)
    /\ handler' = [handler EXCEPT ![p] = h]
    /\ UNCHANGED <<envVars, readPid, fdVars, fnVars, cliVars, sigChan, fsVars, alive, st, nextTrig, persona,
                   shutdown, done, callVars>>

\* The caller cancels the context it gave to Start.
Cancel(p) ==
    /\ alive[p] /\ ~ctxDone[p]
    /\ CancelCall(p, handler[p])

\* Wait returning as soon as the loop has left its select for cleanup.
WaitEarly(p) ==
    /\ alive[p] /\ ~waited[p]
    /\ done[p] \/ pc[p] \in {"cleanup", "cleanup_state"}
    /\ waited' = [waited EXCEPT ![p] = TRUE]
    /\ UNCHANGED <<envVars, readPid, fdVars, fnVars, cliVars, sigVars, fsVars, alive, pc, st, nextTrig, persona, chanVars,
                   startErr, errPid, histVars>>

\* Wait returning also when Start has returned an error.
WaitWithoutLoop(p) ==
    /\ alive[p] /\ ~waited[p]
    /\ done[p] \/ startErr[p] \notin {"none", "ok"}
    /\ waited' = [waited EXCEPT ![p] = TRUE]
    /\ UNCHANGED <<envVars, readPid, fdVars, fnVars, cliVars, sigVars, fsVars, alive, pc, st, nextTrig, persona, chanVars,
                   startErr, errPid, histVars>>

\* Wait: a receive from d.done, which returns once the channel is closed.
Wait(p) ==
    /\ alive[p] /\ done[p] /\ ~waited[p]
    /\ waited' = [waited EXCEPT ![p] = TRUE]
    /\ UNCHANGED <<envVars, readPid, fdVars, fnVars, cliVars, sigVars, fsVars, alive, pc, st, nextTrig, persona, chanVars,
                   startErr, errPid, histVars>>

\* Start is called again on a Daemon whose loop has ended, with the context
\* of the first call or with a new one.  Start has no record of an earlier
\* call: the fields of the Daemon are as the first run left them.
StartAgain(p) ==
    /\ alive[p] /\ pc[p] = "stopped" /\ startErr[p] = "ok"
    /\ pc' = [pc EXCEPT ![p] = "idle"]
    /\ startErr' = [startErr EXCEPT ![p] = "none"]
    /\ errPid' = [errPid EXCEPT ![p] = NoPid]
    /\ \E fresh \in BOOLEAN :
         ctxDone' = [ctxDone EXCEPT ![p] = IF fresh THEN FALSE ELSE @]
    /\ UNCHANGED <<envVars, readPid, fdVars, fnVars, cliVars, sigVars, fsVars, alive, st, nextTrig, persona,
                   shutdown, done, waited, histVars>>

\* ------------------------------- cmd daemon start: signal handling

\* A SIGINT or SIGTERM reaches process p: signal.Notify puts it in sigChan
\* (capacity 1) without blocking, and drops it when the channel is full.
Deliver(pid) == [sigChan EXCEPT ![pid] = 1]

\* Ctrl+C in the terminal of the start command.
Interrupt(p) ==
    /\ alive[p]
    /\ sigChan' = Deliver(p)
    /\ UNCHANGED <<envVars, readPid, fdVars, fnVars, cliVars, handler, fsVars, alive, pc, st, nextTrig, persona,
                   chanVars, callVars, histVars>>

\* The signal goroutine's receive from sigChan.
SignalReceive(p) ==
    /\ alive[p] /\ handler[p] = "recv" /\ sigChan[p] = 1
    /\ sigChan' = [sigChan EXCEPT ![p] = 0]
    /\ handler' = [handler EXCEPT ![p] = "stop"]
    /\ UNCHANGED <<envVars, readPid, fdVars, fnVars, cliVars, fsVars, alive, pc, st, nextTrig, persona,
                   chanVars, callVars, histVars>>

\* The signal goroutine calls d.Stop().
HandlerStop(p) ==
    /\ alive[p] /\ handler[p] = "stop"
    /\ StopCall(p, "cancel")

\* The signal goroutine calls cancel() and ends.
HandlerCancel(p) ==
    /\ alive[p] /\ handler[p] = "cancel"
    /\ CancelCall(p, "exit")

SignalStep(p) == SignalReceive(p) \/ HandlerStop(p) \/ HandlerCancel(p)

\* ----------------------- pidfile.go: IsRunning, StopRunning (a client)

\* The SIGTERMs StopRunning has sent, over all pids.
RECURSIVE SumSignalled(_, _)
SumSignalled(f, S) ==
    IF S = {} THEN 0
    ELSE LET x == CHOOSE y \in S : TRUE IN f[x] + SumSignalled(f, S \ {x})

\* ClientStop with the marker of the signalled process removed as well.
ClientStopAndRelease(pid) ==
    /\ signalled' = [signalled EXCEPT ![pid] = @ + 1]
    /\ sigChan' = IF ProcessExists(pid) THEN Deliver(pid) ELSE sigChan
    /\ cres' = [op |-> "stop", read |-> pid, running |-> FALSE, pid |-> pid,
                err |-> IF ProcessExists(pid) THEN "none" ELSE "NoProcess"]
    /\ pidFile' = NoFile

\* StopRunning, lines 100-105: SIGTERM to pid, which reaches the process when
\* there is one; the error of the signal is what StopRunning returns.  No
\* file is touched.
ClientStop(pid) ==
    /\ signalled' = [signalled EXCEPT ![pid] = @ + 1]
    /\ sigChan' = IF ProcessExists(pid) THEN Deliver(pid) ELSE sigChan
    /\ cres' = [op |-> "stop", read |-> pid, running |-> FALSE, pid |-> pid,
                err |-> IF ProcessExists(pid) THEN "none" ELSE "NoProcess"]
    /\ pidFile' = pidFile

\* What one IsRunning call of the client saw (what ReadPID gave it, whether
\* the process answered signal 0 when one was probed, the state file at that
\* moment) and what it returns.
Observation(read, answered, a) ==
    [marker |-> read,
     live |-> answered,
     state |-> stateFile.kind,
     res |-> <<a.running, a.pid, a.err>>]

\* The client calls IsRunning (daemon status, daemon stop, the TUI): the call
\* of ReadPID, and the return at lines 72 and 74 when it gave no pid.
ProbeRead ==
    /\ cpc = "idle"
    /\ LET r == ReadPID(pidFile)
           a == IsRunningAfterRead(r) IN
         IF a.returns
         THEN /\ Cardinality(seen \cup {Observation(r, FALSE, a)}) <= MaxProbes
              /\ seen' = seen \cup {Observation(r, FALSE, a)}
              /\ cpc' = "idle"
              /\ cres' = [op |-> "probe", read |-> NoPid,
                          running |-> a.running, pid |-> a.pid, err |-> a.err]
         ELSE /\ Cardinality(seen) < MaxProbes
              /\ seen' = seen
              /\ cpc' = "probe_sig"
              /\ cres' = [op |-> "probing", read |-> r.pid,
                          running |-> FALSE, pid |-> NoPid, err |-> "none"]
    /\ UNCHANGED <<envVars, readPid, fdVars, fnVars, sigVars, signalled, fsVars, alive, pc, st, nextTrig, persona,
                   chanVars, callVars, histVars>>

\* IsRunning, lines 78-90, in the client: signal 0 to the pid that was read.
\* A process that answers makes the call return (true, pid); otherwise the
\* marker is stale and is removed next.
ProbeSignal ==
    /\ cpc = "probe_sig"
    /\ LET answered == ProcessExists(cres.read)
           a == IsRunningAfterSignal(cres.read, answered)
           o == Observation([pid |-> cres.read, err |-> "none"], answered, a) IN
         /\ seen' = seen \cup {o}
         /\ cpc' = IF a.stale THEN "probe_rm" ELSE "idle"
         /\ cres' = [op |-> IF a.stale THEN "probing" ELSE "probe",
                     read |-> cres.read,
                     running |-> a.running, pid |-> a.pid, err |-> a.err]
    /\ UNCHANGED <<envVars, readPid, fdVars, fnVars, sigVars, signalled, fsVars, alive, pc, st, nextTrig, persona,
                   chanVars, callVars, histVars>>

\* ProbeRemoveStale with the stale marker left where it is.
ProbeKeepStale ==
    /\ cpc = "probe_rm"
    /\ pidFile' = pidFile
    /\ cpc' = "idle"
    /\ cres' = [cres EXCEPT !.op = "probe"]
    /\ UNCHANGED <<envVars, readPid, fdVars, fnVars, sigVars, signalled, seen, stateFile, alive, pc, st, nextTrig,
                   persona, chanVars, callVars, histVars>>

\* IsRunning, lines 84-88, in the client: RemovePID with its result dropped,
\* then (false, 0, nil).
ProbeRemoveStale ==
    /\ cpc = "probe_rm"
    /\ \/ pidFile' = NoFile
       \/ ioFaulty /\ pidFile' = pidFile
    /\ cpc' = "idle"
    /\ cres' = [cres EXCEPT !.op = "probe"]
    /\ pidFd' = (IF pidFile'.exists THEN pidFd ELSE {})
    /\ UNCHANGED <<envVars, readPid, stateFd, fnVars, sigVars, signalled, seen, stateFile, alive, pc, st, nextTrig,
                   persona, chanVars, callVars, histVars>>

\* The client calls StopRunning: the call of ReadPID.  A read error is
\* returned wrapped and nothing is signalled; a pid is kept for the signal.
StopRunningRead ==
    /\ cpc = "idle"
    /\ LET r == ReadPID(pidFile) IN
         IF r.err # "none"
         THEN /\ cres' = [op |-> "stop", read |-> NoPid, running |-> FALSE,
                          pid |-> NoPid, err |-> r.err]
              /\ cpc' = "idle"
         ELSE /\ SumSignalled(signalled, Pids) < MaxSignals
              /\ cres' = [op |-> "stopping", read |-> r.pid, running |-> FALSE,
                          pid |-> NoPid, err |-> "none"]
              /\ cpc' = "stop_sig"
    /\ UNCHANGED <<envVars, readPid, fdVars, fnVars, sigVars, signalled, seen, fsVars, alive, pc, st, nextTrig,
                   persona, chanVars, callVars, histVars>>

\* StopRunning, lines 100-105: the SIGTERM to the pid that was read, and the
\* return.
StopRunningSignal ==
    /\ cpc = "stop_sig"
    /\ ClientStop(cres.read)
    /\ cpc' = "idle"
    /\ pidFd' = (IF pidFile'.exists THEN pidFd ELSE {})
    /\ UNCHANGED <<envVars, readPid, stateFd, stateFile, fnVars, handler, seen, alive, pc, st, nextTrig, persona,
                   chanVars, callVars, histVars>>

ClientStep ==
    \/ ProbeRead
    \/ ProbeSignal
    \/ ProbeRemoveStale
    \/ StopRunningRead
    \/ StopRunningSignal

\* ------------------ the package's functions, called one at a time

\* The arguments a direct caller (a test, a command) passes.
FnRates == (-1) .. MaxRate
FnPeriods == {"hour", "day", "week", "month", "Hour", ""}
\* What rand.Int is given by rand.Reader: a failure, or a value that
\* cryptoRandDuration reduces to [0, max).
FnEntropy == {RandFail} \cup (0 .. (7 * 24 * Hour - 1))
FnStates ==
    [pid : {NoPid, 11}, startedAt : {1}, nextTrigger : {ZeroTime, 2},
     entries : {0, 1}, lastEntryAt : {ZeroTime, 1}, lastPersona : {"", "wry"}]

\* How an os.WriteFile ends: written; the open fails and nothing changes; the
\* write fails after the open truncated the file.
WriteOutcomes == {"ok", "open_fails", "write_fails"}

\* WritePID as one call: the marker afterwards and the error returned.
WritePID(file, pid, outcome) ==
    CASE outcome = "ok" -> [file |-> FileOf(Itoa(pid)), err |-> "none"]
      [] outcome = "open_fails" -> [file |-> file, err |-> "WriteFailed"]
      [] OTHER -> [file |-> FileOf(<<>>), err |-> "WriteFailed"]

\* RemovePID with an absent marker reported as an error.
RemovePIDStrict(file, fails) ==
    IF ~file.exists THEN [file |-> file, err |-> "NotExist"]
    ELSE IF fails THEN [file |-> file, err |-> "RemoveFailed"]
    ELSE [file |-> NoFile, err |-> "none"]

\* RemovePID: os.Remove of the marker; an absent file is no error.
RemovePID(file, fails) ==
    IF ~file.exists THEN [file |-> file, err |-> "none"]
    ELSE IF fails THEN [file |-> file, err |-> "RemoveFailed"]
    ELSE [file |-> NoFile, err |-> "none"]

\* SaveState as one call: the state file afterwards and the error returned.
SaveState(file, s, outcome) ==
    CASE outcome = "ok" -> [file |-> StateFileOf(MarshalState(s)), err |-> "none"]
      [] outcome = "open_fails" -> [file |-> file, err |-> "WriteFailed"]
      [] OTHER -> [file |-> EmptyStateFile, err |-> "WriteFailed"]

\* RemoveState with an absent state file reported as an error.
RemoveStateStrict(file, fails) ==
    IF file.kind = "absent" THEN [file |-> file, err |-> "NotExist"]
    ELSE IF fails THEN [file |-> file, err |-> "RemoveFailed"]
    ELSE [file |-> NoStateFile, err |-> "none"]

\* RemoveState: os.Remove of the state file; an absent file is no error.
RemoveState(file, fails) ==
    IF file.kind = "absent" THEN [file |-> file, err |-> "none"]
    ELSE IF fails THEN [file |-> file, err |-> "RemoveFailed"]
    ELSE [file |-> NoStateFile, err |-> "none"]

\* The scheduler's functions keep no state: a caller makes one call, at any
\* time of the clock.  The file functions are called in any sequence.

\* What a call leaves alone besides the files, the clock and its own record.
FnFrame ==
    UNCHANGED <<cfg, ioFaulty, readPid, fdVars, cliVars, sigVars, alive, pc, st, nextTrig, persona,
                chanVars, callVars, histVars>>

CallPeriodToDuration ==
    /\ fnArg = NoCall
    /\ \E period \in FnPeriods :
         /\ fnArg' = [fn |-> "PeriodToDuration", period |-> period]
         /\ fnRet' = PeriodToDuration(period)
    /\ FnFrame /\ UNCHANGED <<now, fsVars>>

CallCalculateNextInterval ==
    /\ fnArg = NoCall
    /\ \E rate \in FnRates : \E period \in FnPeriods : \E rnd \in FnEntropy :
         /\ fnArg' = [fn |-> "CalculateNextInterval", rate |-> rate,
                      period |-> period, rnd |-> rnd]
         /\ fnRet' = CalculateNextInterval(rate, period, rnd)
    /\ FnFrame /\ UNCHANGED <<now, fsVars>>

CallCalculateNextTrigger ==
    /\ fnArg = NoCall
    /\ \E rate \in FnRates : \E period \in FnPeriods : \E rnd \in FnEntropy :
         /\ fnArg' = [fn |-> "CalculateNextTrigger", rate |-> rate,
                      period |-> period, rnd |-> rnd, clock |-> now]
         /\ fnRet' = CalculateNextTrigger(rate, period, rnd, now)
    /\ FnFrame /\ UNCHANGED <<now, fsVars>>

CallSaveState ==
    /\ \E s \in FnStates : \E outcome \in WriteOutcomes :
         /\ outcome = "ok" \/ ioFaulty
         /\ fnArg' = [fn |-> "SaveState", state |-> s]
         /\ fnRet' = [err |-> SaveState(stateFile, s, outcome).err]
         /\ stateFile' = SaveState(stateFile, s, outcome).file
    /\ FnFrame /\ UNCHANGED <<now, pidFile>>

CallLoadState ==
    /\ fnArg' = [fn |-> "LoadState"]
    /\ fnRet' = LoadState(stateFile)
    /\ FnFrame /\ UNCHANGED <<now, fsVars>>

CallRemoveState ==
    /\ \E fails \in BOOLEAN :
         /\ ~fails \/ ioFaulty
         /\ fnArg' = [fn |-> "RemoveState", after |-> fnArg.fn,
                      existed |-> stateFile.kind # "absent"]
         /\ fnRet' = [err |-> RemoveState(stateFile, fails).err]
         /\ stateFile' = RemoveState(stateFile, fails).file
    /\ FnFrame /\ UNCHANGED <<now, pidFile>>

CallWritePID ==
    /\ \E pid \in Procs : \E outcome \in WriteOutcomes :
         /\ outcome = "ok" \/ ioFaulty
         /\ fnArg' = [fn |-> "WritePID", pid |-> pid]
         /\ fnRet' = [err |-> WritePID(pidFile, pid, outcome).err]
         /\ pidFile' = WritePID(pidFile, pid, outcome).file
    /\ FnFrame /\ UNCHANGED <<now, stateFile>>

CallReadPID ==
    /\ fnArg' = [fn |-> "ReadPID"]
    /\ fnRet' = ReadPID(pidFile)
    /\ FnFrame /\ UNCHANGED <<now, fsVars>>

CallRemovePID ==
    /\ \E fails \in BOOLEAN :
         /\ ~fails \/ ioFaulty
         /\ fnArg' = [fn |-> "RemovePID", after |-> fnArg.fn,
                      existed |-> pidFile.exists]
         /\ fnRet' = [err |-> RemovePID(pidFile, fails).err]
         /\ pidFile' = RemovePID(pidFile, fails).file
    /\ FnFrame /\ UNCHANGED <<now, stateFile>>

\* ------------------------------------------------------- environment

\* The process is killed or exits.
Kill(p) ==
    /\ alive[p]
    /\ Die(p)

\* The clock advances.
Tick ==
    /\ now < MaxTime
    /\ now' = now + 1
    /\ UNCHANGED <<cfg, ioFaulty, readPid, fnVars, cliVars, sigVars, fsVars, fdVars, alive, pc, st, nextTrig,
                   persona, chanVars, callVars, histVars>>

\* ------------------------------------------------------ specification

Step(p) ==
    \/ StartIsRunning(p)
    \/ StartSignal(p)
    \/ StartRemoveStale(p)
    \/ WritePIDOpen(p)
    \/ WritePIDWrite(p)
    \/ StartCalculate(p)
    \/ StartInitState(p)
    \/ StartAbort(p)
    \/ StartLaunch(p)
    \/ StartReturn(p)
    \/ SaveStateOpen(p)
    \/ SaveStateWrite(p)
    \/ LoopSelect(p)
    \/ TimerFire(p)
    \/ WorkUnitReturn(p)
    \/ Reschedule(p)
    \/ CleanupRemovePID(p)
    \/ CleanupRemoveState(p)

Next ==
    \/ \E p \in Procs : Step(p)
    \/ \E p \in Procs : Stop(p)
    \/ \E p \in Procs : Cancel(p)
    \/ \E p \in Procs : Wait(p)
    \/ \E p \in Procs : Kill(p)
    \/ Tick

\* One daemon process, with every event of its environment.
Init == InitWith({11})
Spec == Init /\ [][Next]_vars

\* The same, with the scheduling the runtime gives: a goroutine that can take
\* a step takes it, entry.Generate returns, a Wait call is made, and a select
\* whose cancellation case stays ready takes it in the end (the case is drawn
\* uniformly among the ready ones).
LoopCancel(p) == LoopSelect(p) /\ pc'[p] = "cleanup"
Fairness ==
    \A p \in Procs :
        /\ WF_vars(Step(p))
        /\ WF_vars(StartReturn(p))
        /\ WF_vars(Wait(p))
        /\ SF_vars(LoopCancel(p))
\* A config directory where writes and removals do not fail, and a daemon
\* without a persona pool.
InitHealthy == Init /\ ~ioFaulty /\ cfg.personas = <<>>
FairSpec == InitHealthy /\ [][Next]_vars /\ Fairness

\* Two daemon processes started in the same config directory, up to the first
\* trigger: the clock does not advance, so no timer fires.
StartStep(p) ==
    \/ StartIsRunning(p)
    \/ StartSignal(p)
    \/ StartRemoveStale(p)
    \/ WritePIDOpen(p)
    \/ WritePIDWrite(p)
    \/ StartCalculate(p)
    \/ StartInitState(p)
    \/ StartAbort(p)
    \/ StartLaunch(p)
    \/ StartReturn(p)
    \/ SaveStateOpen(p)
    \/ SaveStateWrite(p)
    \/ LoopSelect(p)
    \/ CleanupRemovePID(p)
    \/ CleanupRemoveState(p)

NextRace ==
    \/ \E p \in Procs : StartStep(p)
    \/ \E p \in Procs : Stop(p)
    \/ \E p \in Procs : Cancel(p)
    \/ \E p \in Procs : Wait(p)
    \/ \E p \in Procs : Kill(p)

InitRace == InitWith(Procs)
SpecRace == InitRace /\ [][NextRace]_vars

\* One daemon started by the start command, with a configuration that is
\* accepted or one whose rate is rejected, and the command-line client (daemon
\* status, daemon stop) in the same config directory, up to the first trigger.
\* Stop requests come as signals.
NextOps ==
    \/ \E p \in Procs : StartStep(p)
    \/ \E p \in Procs : SignalStep(p)
    \/ \E p \in Procs : Interrupt(p)
    \/ ClientStep
    \/ \E p \in Procs : Wait(p)
    \/ \E p \in Procs : Kill(p)

InitOps == Init /\ cfg.personas = <<>> /\ cfg.period = "hour"
SpecOps == InitOps /\ [][NextOps]_vars

\* The start command for the whole life of its daemon, with the scheduling
\* the runtime gives; stop requests come as signals.
NextCmd ==
    \/ \E p \in Procs : Step(p)
    \/ \E p \in Procs : SignalStep(p)
    \/ \E p \in Procs : Interrupt(p)
    \/ \E p \in Procs : Wait(p)
    \/ \E p \in Procs : Kill(p)
    \/ Tick

FairnessCmd ==
    \A p \in Procs :
        /\ WF_vars(Step(p))
        /\ WF_vars(StartReturn(p))
        /\ WF_vars(Wait(p))
        /\ WF_vars(SignalStep(p))
        /\ SF_vars(LoopCancel(p))
\* One daemon started in the config directory of an instance that died
\* without cleanup: its marker and its state file are still there.  Writes
\* and removals do not fail, and the new daemon has no persona pool.
StaleState ==
    [pid |-> DeadPid, startedAt |-> 1, nextTrigger |-> 2, entries |-> 1,
     lastEntryAt |-> 1, lastPersona |-> "wry"]
InitRecover ==
    /\ cfg \in {c \in Configs : c.personas = <<>>}
    /\ ioFaulty = FALSE
    /\ pidFile = FileOf(Itoa(DeadPid))
    /\ stateFile = StateFileOf(MarshalState(StaleState))
    /\ InitMemory({11})
FairRecoverSpec == InitRecover /\ [][Next]_vars /\ Fairness

\* One daemon whose caller may call Start again after the loop has ended.
NextReuse ==
    \/ Next
    \/ \E p \in Procs : StartAgain(p)

SpecReuse == InitHealthy /\ [][NextReuse]_vars

FairCmdSpec == InitHealthy /\ [][NextCmd]_vars /\ FairnessCmd


\* No daemon runs; a caller uses the package's functions directly.
InitFn == InitWith({}) /\ cfg.rate = 2 /\ cfg.period = "hour" /\ cfg.personas = <<>>

\* One call of a scheduler function at any time of the clock.
NextSched ==
    \/ CallPeriodToDuration
    \/ CallCalculateNextInterval
    \/ CallCalculateNextTrigger
    \/ Tick
InitSched == InitFn /\ ~ioFaulty /\ pidFile = NoFile
SpecSched == InitSched /\ [][NextSched]_vars

\* The functions on the state file, in any sequence.
NextState ==
    \/ CallSaveState
    \/ CallLoadState
    \/ CallRemoveState
InitState == InitFn /\ pidFile = NoFile
SpecState == InitState /\ [][NextState]_vars

\* The functions on the marker file, in any sequence, next to a state file.
NextMarker ==
    \/ CallWritePID
    \/ CallReadPID
    \/ CallRemovePID
    \/ CallSaveState
SpecMarker == InitFn /\ [][NextMarker]_vars

\* ------------------------------------------------------------ claims

\* The marker names a process that answers signal 0.
LiveMarker ==
    /\ ReadPID(pidFile).err = "none"
    /\ ProcessExists(ReadPID(pidFile).pid)

\* Process p takes the first step of its Start call.
StartCalled(p) ==
    /\ alive[p] /\ alive'[p]
    /\ pc[p] = "idle" /\ startErr[p] = "none"
    /\ (pc'[p] # "idle" \/ startErr'[p] # "none")

\* C1: at most one process that shares the marker path is in its loop
\* (Running) at any time, whatever the interleaving of the Start calls.
C1_SingleInstance ==
    \A p \in Procs : \A q \in Procs : (InLoop(p) /\ InLoop(q)) => p = q

\* The IsRunning call of p's Start sends signal 0 to the pid it read and the
\* process answers: the probe reports a live instance.
StartProbedLive(p) ==
    /\ alive[p] /\ alive'[p]
    /\ pc[p] = "probe_sig" /\ pc'[p] # "probe_sig"
    /\ ProcessExists(readPid[p])

\* C2: a Start whose probe reports a live instance returns AlreadyRunning
\* with the pid the probe read from the marker, leaves the caller idle and
\* leaves the marker file and the state file as they were; the pid is the
\* one the marker held when it was read, and reading it changes no file; an
\* instance whose Start returned AlreadyRunning never launches a loop.
C2_AlreadyRunningFrame ==
    /\ [][\A p \in Procs :
            /\ StartProbedLive(p) =>
                  /\ startErr'[p] = "AlreadyRunning"
                  /\ errPid'[p] = readPid[p]
                  /\ pc'[p] = "idle"
                  /\ pidFile' = pidFile
                  /\ stateFile' = stateFile
            /\ (StartCalled(p) /\ pc'[p] = "probe_sig") =>
                  /\ ReadPID(pidFile).err = "none"
                  /\ readPid'[p] = ReadPID(pidFile).pid
                  /\ pidFile' = pidFile
                  /\ stateFile' = stateFile]_vars
    /\ [](\A p \in Procs :
            startErr[p] = "AlreadyRunning" =>
                (pc[p] = "idle" /\ invoked[p] = 0 /\ errPid[p] \in Procs))

\* C2's case: a Start was refused because of an instance that is in its loop
\* with its state saved.
C2_Witness ==
    \E p \in Procs : \E q \in Procs :
        /\ startErr[p] = "AlreadyRunning" /\ errPid[p] = q
        /\ InLoop(q)
        /\ stateFile.kind = "json"

\* Start has just returned nil in process p.
StartReturnedOk(p) == startErr[p] = "none" /\ startErr'[p] = "ok"

\* Start launches the loop goroutine of p in this step.
LoopLaunched(p) == alive'[p] /\ pc[p] = "launch" /\ pc'[p] = "loop"

\* What C3 says of the files and of the loop when Start returns nil, the
\* trigger's bounds apart: the marker reads as p, the state file loads as the
\* initial state of p, and the loop is launched and has not ended.
StartedWith(p) ==
    LET m == ReadPID(pidFile)
        l == LoadState(stateFile)
    IN /\ m.err = "none" /\ m.pid = p
       /\ l.err = "none" /\ l.found
       /\ l.state = st[p]
       /\ l.state.pid = p
       /\ l.state.entries = 0
       /\ l.state.lastEntryAt = ZeroTime
       /\ l.state.lastPersona = ""
       /\ pc[p] = "loop" /\ ~done[p]

\* C3 as claimed: when Start returns nil the marker and the saved initial
\* state are in place and nextTrigger lies in
\* [startedAt + average/2, startedAt + average*1.5].
C3_StartPostcondition ==
    [][\A p \in Procs :
         StartReturnedOk(p) =>
            LET avg == AvgInterval(cfg.rate, cfg.period) IN
              /\ StartedWith(p)'
              /\ st'[p].nextTrigger >= st'[p].startedAt + avg \div 2
              /\ st'[p].nextTrigger <= st'[p].startedAt + avg + avg \div 2]_vars

\* C3 as amended: the lower bound counts from the clock reading taken when
\* the trigger is computed, which precedes the reading of startedAt; the
\* trigger computed then is the one saved.  The files are as claimed when
\* Start launches the loop; Start returns nil only after that, whatever the
\* loop has done by then, and never an error.
C3_StartPostconditionAmended ==
    [][\A p \in Procs :
         LET avg == AvgInterval(cfg.rate, cfg.period) IN
           /\ (alive'[p] /\ pc[p] = "calc" /\ pc'[p] = "init_state") =>
                 /\ nextTrig'[p] >= now + avg \div 2
                 /\ nextTrig'[p] <= now + avg + avg \div 2
           /\ (alive'[p] /\ pc[p] = "init_state" /\ pc'[p] # "init_state") =>
                 /\ st'[p].startedAt = now
                 /\ st'[p].nextTrigger = nextTrig[p]
           /\ LoopLaunched(p) =>
                 /\ StartedWith(p)'
                 /\ st'[p].nextTrigger = nextTrig'[p]
                 /\ st'[p].nextTrigger <= st'[p].startedAt + avg + avg \div 2
           /\ StartReturnedOk(p) => Launched(p)
           /\ (alive'[p] /\ Launched(p) /\ startErr[p] = "none") =>
                 startErr'[p] \in {"none", "ok"}]_vars

\* C3's case: Start has returned nil, the loop has not yet reached its
\* select, and the clock advanced between the two readings so that the
\* trigger is less than average/2 after startedAt.
C3_Witness ==
    \E p \in Procs :
        /\ startErr[p] = "ok" /\ pc[p] = "loop" /\ invoked[p] = 0
        /\ stateFile.kind = "json"
        /\ st[p].nextTrigger < st[p].startedAt + AvgInterval(cfg.rate, cfg.period) \div 2

\* C4: after a successful Start, Stop followed by Wait terminates, and once
\* Wait has returned neither the marker file nor the state file is present,
\* then or later (removals that do not fail; the process is not killed).
C4_StopThenWait ==
    /\ [](\A p \in Procs :
            (waited[p] /\ ~ioFaulty) =>
                (~pidFile.exists /\ stateFile.kind = "absent"))
    /\ \A p \in Procs :
          (startErr[p] = "ok" /\ shutdown[p]) ~> (waited[p] \/ ~alive[p])

\* C4's case: Start succeeded, work was done, Stop was called and Wait has
\* returned.
C4_Witness ==
    \E p \in Procs :
        /\ startErr[p] = "ok" /\ shutdown[p] /\ ~ctxDone[p] /\ waited[p]
        /\ invoked[p] > 0
        /\ ~ioFaulty

\* Process p's loop makes the choice of its select.
SelectTaken(p) == alive[p] /\ alive'[p] /\ pc[p] = "loop" /\ pc'[p] # "loop"

\* C5: when the loop reaches its select with a cancellation (context or
\* Stop) and the trigger timer both ready, it takes the cancellation branch
\* and does not invoke the work unit.
C5_CancelPriority ==
    [][\A p \in Procs :
         (SelectTaken(p) /\ CancelReady(p) /\ TimerReady(p)) =>
            (pc'[p] = "cleanup" /\ invoked'[p] = invoked[p])]_vars

\* C6: a Stop or a context cancellation that arrives while the loop waits
\* before nextTrigger sends the loop to cleanup, and no work unit is invoked
\* from that request on.
C6_StopWhileWaiting ==
    \A p \in Procs :
        quietFrom[p] # -1 =>
            /\ invoked[p] = quietFrom[p]
            /\ pc[p] \in {"cleanup", "cleanup_state", "stopped"}

\* C6's case: the loop, waiting for its second trigger, was stopped and has
\* finished its cleanup.
C6_Witness ==
    \E p \in Procs : quietFrom[p] = 1 /\ pc[p] = "stopped"

\* From the return of entry.Generate to the new trigger.
AttemptPhase == {"working", "gen_save", "gen_save_w", "resched"}

\* C7: a failing work unit never ends the loop (without a stop request the
\* instance stays Running, and the loop is left for cleanup only), and every
\* attempt, failed or not, is followed by a new nextTrigger at least
\* average/2 after the clock reading taken after the attempt.
C7_FailureKeepsCadence ==
    /\ [](\A p \in Procs :
            (alive[p] /\ startErr[p] = "ok" /\ ~CancelReady(p)) => InLoop(p))
    /\ [][\A p \in Procs :
            alive'[p] =>
              /\ (pc[p] = "working" /\ pc'[p] # "working") =>
                    pc'[p] \in {"gen_save", "resched"}
              /\ (InLoop(p) /\ ~InLoop(p)') =>
                    (pc'[p] = "cleanup" /\ CancelReady(p)')
              /\ (pc[p] \in AttemptPhase /\ pc'[p] \notin AttemptPhase) =>
                    /\ pc'[p] = "run_save"
                    /\ st'[p].nextTrigger >=
                          now + AvgInterval(cfg.rate, cfg.period) \div 2]_vars

\* C7's case: two attempts, both failed, and the loop waits for the next
\* trigger.
C7_Witness ==
    \E p \in Procs :
        /\ invoked[p] = 2 /\ succeeded[p] = 0
        /\ pc[p] = "parked" /\ ~CancelReady(p)

\* C8: the count of d.state starts at 0, never decreases and equals the
\* number of successful invocations; LastEntryAt and LastPersona change only
\* when an invocation succeeds, a failed one leaves the state as it was.
C8_CountsSuccesses ==
    /\ [](\A p \in Procs : alive[p] => st[p].entries = succeeded[p])
    /\ [][\A p \in Procs :
            alive'[p] =>
              /\ st'[p].entries >= st[p].entries
              /\ (pc'[p] = "start_save" /\ pc[p] # "start_save") => st'[p].entries = 0
              /\ (st'[p].lastEntryAt # st[p].lastEntryAt
                    \/ st'[p].lastPersona # st[p].lastPersona) =>
                    succeeded'[p] = succeeded[p] + 1
              /\ (pc[p] = "working" /\ pc'[p] # "working"
                    /\ succeeded'[p] = succeeded[p]) => st'[p] = st[p]]_vars

\* C8's case: a success followed by a failure, which has left the count and
\* the last-entry fields of the success.
C8_Witness ==
    \E p \in Procs :
        /\ invoked[p] = 2 /\ succeeded[p] = 1
        /\ pc[p] = "resched"
        /\ st[p].entries = 1 /\ st[p].lastEntryAt # ZeroTime
        /\ st[p].lastEntryAt < now

\* C9: no persisted snapshot pairs a count that includes a cycle's work unit
\* with the trigger of that cycle: a saved state whose last entry was made at
\* lastEntryAt carries a nextTrigger scheduled after it.
C9_SnapshotConsistent ==
    LET l == LoadState(stateFile) IN
      (l.found /\ l.state.entries > 0) =>
          l.state.nextTrigger > l.state.lastEntryAt

\* C10: a Load at any moment, also during a Save, returns a complete state
\* or absent, never a parse error.
C10_LoadNeverCorrupt == LoadState(stateFile).err = "none"

\* The client makes the first step of an IsRunning call, the call of ReadPID.
ProbeCalled ==
    /\ cpc = "idle"
    /\ cres'.op \in {"probe", "probing"}
    /\ (cres' # cres \/ seen' # seen \/ cpc' # cpc)

\* The client's IsRunning call sends signal 0 to the pid it read.
ProbeSignalled == cpc = "probe_sig" /\ cpc' # "probe_sig"

\* The client's IsRunning call returns after its RemovePID.
ProbeRemoved == cpc = "probe_rm" /\ cpc' = "idle"

\* The client's IsRunning call returns.
ProbeReturned ==
    \/ ProbeCalled /\ cpc' = "idle"
    \/ ProbeSignalled /\ cpc' = "idle"
    \/ ProbeRemoved

\* The marker names a process that does not exist.
StaleMarker ==
    /\ ReadPID(pidFile).err = "none"
    /\ ~ProcessExists(ReadPID(pidFile).pid)

\* C11: IsRunning that finds the recorded process dead returns (false, 0,
\* nil) and the marker file is absent as it returns; no caller, the client
\* or Start, is told (true, pid) for a pid that does not answer the probe.
C11_ProbeSelfHeals ==
    [][/\ (ProbeSignalled /\ ~ProcessExists(cres.read)) =>
             /\ cpc' = "probe_rm"
             /\ ~cres'.running /\ cres'.pid = NoPid /\ cres'.err = "none"
       /\ ProbeRemoved =>
             /\ cres'.op = "probe"
             /\ ~cres'.running /\ cres'.pid = NoPid /\ cres'.err = "none"
             /\ ~pidFile'.exists
       /\ (ProbeReturned /\ cres'.running) =>
             (cres'.op = "probe" /\ ProcessExists(cres'.pid))
       /\ \A p \in Procs :
             (startErr[p] = "none" /\ startErr'[p] = "AlreadyRunning") =>
                 ProcessExists(errPid'[p])]_vars

\* C12: IsRunning with no marker file returns (false, 0, nil) from its call
\* of ReadPID, without a signal probe, and leaves the marker path and the
\* state file as they were; so does the probe Start makes, and Start goes on
\* to WritePID.
C12_ProbeAbsent ==
    [][/\ (ProbeCalled /\ ~pidFile.exists) =>
             /\ cpc' = "idle" /\ cres'.op = "probe"
             /\ ~cres'.running /\ cres'.pid = NoPid /\ cres'.err = "none"
             /\ pidFile' = pidFile /\ stateFile' = stateFile
       /\ \A p \in Procs :
             (StartCalled(p) /\ ~pidFile.exists) =>
                 /\ pc'[p] = "write_pid" /\ startErr'[p] = "none"
                 /\ pidFile' = pidFile /\ stateFile' = stateFile]_vars

\* C12's case: the client probed with no marker and no state file and was
\* told (false, 0, nil); neither file exists.
C12_Witness ==
    /\ cres.op = "probe" /\ cres.read = NoPid
    /\ ~cres.running /\ cres.pid = NoPid /\ cres.err = "none"
    /\ [marker |-> ReadPID(NoFile), live |-> FALSE, state |-> "absent",
        res |-> <<FALSE, NoPid, "none">>] \in seen
    /\ ~pidFile.exists /\ stateFile.kind = "absent"

\* Process p has written its marker and has not yet called RemovePID.
Claimed(p) ==
    /\ alive[p]
    /\ pc[p] \in {"calc", "calc_rm", "init_state", "start_save", "start_save_w",
                  "start_save_rm", "launch", "cleanup"} \/ InLoop(p)

\* C13: while a process that has written its marker is alive and has not
\* released it, IsRunning returns (true, its pid) and the marker reads as the
\* pid WritePID wrote.
C13_ClaimedProbesTrue ==
    \A p \in Procs :
        Claimed(p) =>
            /\ ReadPID(pidFile) = [pid |-> p, err |-> "none"]
            /\ IsRunning(pidFile).running /\ IsRunning(pidFile).pid = p

\* A step of the client's IsRunning call.
ProbeStep == ProbeCalled \/ ProbeSignalled \/ ProbeRemoved

\* What IsRunning is to return for what ReadPID gave it and for the answer
\* of the process it probed.
Accurate(o) ==
    CASE o.marker.err = "NotExist" -> <<FALSE, NoPid, "none">>
      [] o.marker.err = "InvalidPID" -> <<FALSE, NoPid, "InvalidPID">>
      [] o.live -> <<TRUE, o.marker.pid, "none">>
      [] OTHER -> <<FALSE, NoPid, "none">>

\* C14: two IsRunning calls that read the same marker and got the same
\* answer from the recorded process return the same result whatever the
\* state file was at that moment; the result is the accurate one for the
\* marker and the answer; and no step of IsRunning changes the state file.
C14_ProbeIgnoresState ==
    /\ [](\A a \in seen : \A b \in seen :
            (a.marker = b.marker /\ a.live = b.live) => a.res = b.res)
    /\ [](\A o \in seen : o.res = Accurate(o))
    /\ [][ProbeStep => stateFile' = stateFile]_vars

\* C14's case: the client probed the marker of the live daemon once before
\* the state file existed and once after it was saved.
C14_Witness ==
    \E a \in seen : \E b \in seen :
        /\ a.marker = b.marker /\ a.live /\ b.live
        /\ a.marker.err = "none"
        /\ a.state = "absent" /\ b.state = "json"
        /\ a.res[1] /\ b.res[1]

\* The client makes the first step of a StopRunning call, the call of
\* ReadPID.
StopRunningCalled ==
    /\ cpc = "idle"
    /\ cres'.op \in {"stop", "stopping"}
    /\ (cres' # cres \/ cpc' # cpc)

\* The client's StopRunning call sends its signal and returns.
StopRunningSignalled == cpc = "stop_sig" /\ cpc' = "idle"

\* C15 as claimed: StopRunning with no marker fails and sends nothing; with
\* a marker file present it sends one SIGTERM to the recorded pid; it returns
\* at once and leaves both files as they were.
C15_RequestStop ==
    [][/\ StopRunningCalled =>
             /\ pidFile' = pidFile /\ stateFile' = stateFile
             /\ signalled' = signalled /\ sigChan' = sigChan
             /\ ~pidFile.exists => (cpc' = "idle" /\ cres'.err = "NotExist")
             /\ pidFile.exists =>
                   (cpc' = "stop_sig" /\ cres'.read = ReadPID(pidFile).pid)
       /\ StopRunningSignalled =>
             /\ pidFile' = pidFile /\ stateFile' = stateFile
             /\ cres'.pid = cres.read
             /\ SumSignalled(signalled', Pids) = SumSignalled(signalled, Pids) + 1
             /\ signalled'[cres.read] = signalled[cres.read] + 1]_vars

\* C15 as amended: the signal is sent when the marker holds a process id, to
\* the pid that was read, and reaches the process when there is one at that
\* moment; a marker that does not parse (the empty file between the open and
\* the write of WritePID) makes StopRunning fail with the read error and send
\* nothing.  No step of StopRunning changes a file or waits for the target.
C15_RequestStopAmended ==
    [][/\ StopRunningCalled =>
             /\ pidFile' = pidFile /\ stateFile' = stateFile
             /\ pc' = pc /\ alive' = alive
             /\ signalled' = signalled /\ sigChan' = sigChan
             /\ ReadPID(pidFile).err # "none" =>
                   /\ cpc' = "idle" /\ cres'.op = "stop"
                   /\ cres'.err = ReadPID(pidFile).err
             /\ ~pidFile.exists => cres'.err = "NotExist"
             /\ ReadPID(pidFile).err = "none" =>
                   (cpc' = "stop_sig" /\ cres'.read = ReadPID(pidFile).pid)
       /\ StopRunningSignalled =>
             /\ pidFile' = pidFile /\ stateFile' = stateFile
             /\ pc' = pc /\ alive' = alive
             /\ cres'.op = "stop" /\ cres'.pid = cres.read
             /\ SumSignalled(signalled', Pids) = SumSignalled(signalled, Pids) + 1
             /\ signalled'[cres.read] = signalled[cres.read] + 1
             /\ ProcessExists(cres.read) =>
                   (cres'.err = "none" /\ sigChan'[cres.read] = 1)
             /\ ~ProcessExists(cres.read) =>
                   (cres'.err = "NoProcess" /\ sigChan' = sigChan)]_vars

\* C15's case: StopRunning has signalled the daemon and returned while the
\* daemon is still in its loop with its marker and its state file in place.
C15_Witness ==
    /\ cres.op = "stop" /\ cres.err = "none"
    /\ cres.pid \in Procs
    /\ signalled[cres.pid] = 1
    /\ InLoop(cres.pid)
    /\ pidFile = FileOf(Itoa(cres.pid))
    /\ stateFile.kind = "json"

\* The configuration is one CalculateNextInterval rejects.
InvalidConfig == CalculateNextInterval(cfg.rate, cfg.period, 0).err # "none"

\* C16: with an invalid configuration (rate <= 0 or an unknown period) no
\* state of a Start call has a marker written by Start or a state file: the
\* marker path holds what it held before (or nothing, once a stale marker is
\* removed) and a probe never reports a running daemon.
C16_InvalidConfigTouchesNothing ==
    InvalidConfig =>
        /\ pidFile \in {NoFile, FileOf(Itoa(DeadPid))}
        /\ stateFile = NoStateFile
        /\ ~IsRunning(pidFile).running

\* Start returns an error in process p.
StartFailed(p) == startErr[p] = "none" /\ startErr'[p] \notin {"none", "ok"}

\* C17: an instance whose Start returned an error has no loop and never
\* invokes the work unit; and when the error is not AlreadyRunning, no marker
\* file created by that Start (empty or holding its pid) is left on return.
C17_FailedStartLeavesNothing ==
    /\ [](\A p \in Procs :
            startErr[p] \notin {"none", "ok"} =>
                (pc[p] = "idle" /\ ~InLoop(p) /\ invoked[p] = 0))
    /\ [][\A p \in Procs :
            (StartFailed(p) /\ startErr'[p] # "AlreadyRunning") =>
                ~(pidFile'.exists /\ pidFile'.bytes \in {<<>>, Itoa(p)})]_vars

\* C18: cleanup calls RemovePID first and RemoveState second; the step after
\* RemovePID is RemoveState whether the marker was removed or not, and the
\* step after RemoveState ends the loop (d.done closed) whether the state file
\* was removed or not; neither removal touches the other file.
C18_CleanupBestEffort ==
    [][\A p \in Procs :
         alive'[p] =>
           /\ (pc[p] = "cleanup" /\ pc'[p] # "cleanup") =>
                 /\ pc'[p] = "cleanup_state"
                 /\ pidFile' = NoFile \/ (ioFaulty /\ pidFile' = pidFile)
                 /\ stateFile' = stateFile
                 /\ ~done'[p]
           /\ (pc[p] = "cleanup_state" /\ pc'[p] # "cleanup_state") =>
                 /\ pc'[p] = "stopped"
                 /\ stateFile' = NoStateFile \/ (ioFaulty /\ stateFile' = stateFile)
                 /\ pidFile' = pidFile
                 /\ done'[p]
           /\ (pc'[p] = "stopped" /\ pc[p] # "stopped") => pc[p] = "cleanup_state"
           /\ (pc'[p] = "cleanup_state" /\ pc[p] # "cleanup_state") =>
                 pc[p] = "cleanup"]_vars

\* C18's case: the loop has ended although the marker could not be removed,
\* and the state file, saved by Start, was removed after that failure.
C18_Witness ==
    \E p \in Procs :
        /\ pc[p] = "stopped" /\ done[p] /\ startErr[p] = "ok"
        /\ ioFaulty
        /\ pidFile = FileOf(Itoa(p))
        /\ stateFile = NoStateFile

\* A SIGINT or SIGTERM has reached the start command of process p.
SignalSeen(p) == sigChan[p] = 1 \/ handler[p] # "recv"

\* C19: once a signal has reached a daemon whose Start succeeded, the loop
\* ends through cleanup with the marker and the state file removed, unless
\* the process is killed first (removals that do not fail; entry.Generate
\* returns); the loop ends from cleanup only.
C19_SignalStops ==
    /\ \A p \in Procs :
          (alive[p] /\ startErr[p] = "ok" /\ SignalSeen(p)) ~>
              \/ ~alive[p]
              \/ /\ pc[p] = "stopped" /\ done[p]
                 /\ ~pidFile.exists /\ stateFile.kind = "absent"
    /\ [](\A p \in Procs :
            pc[p] = "stopped" => (~pidFile.exists /\ stateFile.kind = "absent"))
    /\ [][\A p \in Procs :
            (alive'[p] /\ InLoop(p) /\ ~InLoop(p)') => pc'[p] = "cleanup"]_vars

\* C19's case: the signal was handled while the loop was not waiting before
\* its trigger (a work unit had been invoked), and the loop has ended and
\* Wait has returned.
C19_Witness ==
    \E p \in Procs :
        /\ handler[p] = "exit" /\ shutdown[p] /\ ctxDone[p]
        /\ invoked[p] > 0 /\ quietFrom[p] = -1
        /\ pc[p] = "stopped" /\ waited[p]
        /\ ~pidFile.exists /\ stateFile.kind = "absent"

\* C20: no sequence of stop requests (Stop, context cancellation, signals)
\* crashes the process.
C20_StopRequestsSafe == \A p \in Procs : pc[p] # "panicked"

\* The last call was of CalculateNextInterval with a rate and a period it
\* accepts.
ValidIntervalCall ==
    /\ fnArg.fn = "CalculateNextInterval"
    /\ fnArg.rate > 0 /\ fnArg.period \in {"hour", "day", "week"}

\* The length of a recognised period, in ticks.
PeriodTicks(period) ==
    CASE period = "hour" -> Hour
      [] period = "day" -> 24 * Hour
      [] period = "week" -> 168 * Hour

\* C21: for rate > 0 and a period of hour, day or week, the interval d
\* returned satisfies average/2 <= d <= average*1.5, the average being the
\* period's length divided by the rate with integer division.
C21_IntervalInRange ==
    ValidIntervalCall =>
        LET average == PeriodTicks(fnArg.period) \div fnArg.rate IN
          /\ fnRet.d >= average \div 2
          /\ 2 * fnRet.d <= 3 * average

\* C21's case: a draw at the top of the range for one entry per hour.
C21_Witness ==
    /\ ValidIntervalCall /\ fnArg.rate = 1 /\ fnArg.period = "hour"
    /\ fnRet.err = "none"
    /\ fnRet.d = Hour + Hour \div 2 - 1

\* C22: for rate > 0 and a recognised period the interval returned is never
\* zero or negative, however large the rate.
C22_IntervalPositive == ValidIntervalCall => fnRet.d > 0

\* C23: a rate <= 0 fails with the rate error whatever the period, a rate > 0
\* with a period other than hour, day, week fails with the period error, and
\* the duration returned with either error is 0.
C23_InvalidInputs ==
    fnArg.fn = "CalculateNextInterval" =>
        /\ fnArg.rate <= 0 => (fnRet.err = "InvalidRate" /\ fnRet.d = 0)
        /\ (fnArg.rate > 0 /\ fnArg.period \notin {"hour", "day", "week"}) =>
              (fnRet.err = "InvalidPeriod" /\ fnRet.d = 0)

\* C23's case: a rate of 0 with a period that is not recognised either.
C23_Witness ==
    /\ fnArg.fn = "CalculateNextInterval"
    /\ fnArg.rate = 0 /\ fnArg.period = "month"
    /\ fnRet.err = "InvalidRate"

\* C24: CalculateNextInterval returns an error exactly when the rate or the
\* period is invalid; when the entropy source fails it returns the average.
C24_NoErrorOnValid ==
    fnArg.fn = "CalculateNextInterval" =>
        /\ fnRet.err # "none" <=> ~ValidIntervalCall
        /\ (ValidIntervalCall /\ fnArg.rnd = RandFail) =>
              fnRet.d = PeriodTicks(fnArg.period) \div fnArg.rate

\* C24's case: the entropy source failed on a call with a range to draw from.
C24_Witness ==
    /\ ValidIntervalCall /\ fnArg.rnd = RandFail
    /\ fnArg.rate = 1 /\ fnArg.period = "day"
    /\ fnRet = [d |-> 24 * Hour, err |-> "none"]

\* C25: PeriodToDuration returns one hour for "hour", 24 hours for "day", 168
\* hours for "week", and an error with duration 0 for any other string, the
\* empty one included.
C25_PeriodDuration ==
    fnArg.fn = "PeriodToDuration" =>
        fnRet = CASE fnArg.period = "hour" -> [d |-> Hour, err |-> "none"]
                  [] fnArg.period = "day" -> [d |-> 24 * Hour, err |-> "none"]
                  [] fnArg.period = "week" -> [d |-> 168 * Hour, err |-> "none"]
                  [] OTHER -> [d |-> 0, err |-> "InvalidPeriod"]

\* C25's case: the empty string was passed.
C25_Witness ==
    /\ fnArg = [fn |-> "PeriodToDuration", period |-> ""]
    /\ fnRet.err = "InvalidPeriod"

\* C26: CalculateNextTrigger returns the clock plus the interval that
\* CalculateNextInterval draws, hence a time in
\* [now + average/2, now + average*1.5] and not before now; it fails exactly
\* when CalculateNextInterval fails, with the same error.
C26_TriggerIsNowPlusInterval ==
    fnArg.fn = "CalculateNextTrigger" =>
        LET i == CalculateNextInterval(fnArg.rate, fnArg.period, fnArg.rnd)
            valid == fnArg.rate > 0 /\ fnArg.period \in {"hour", "day", "week"}
        IN /\ fnRet.err = i.err
           /\ fnRet.err = "none" <=> valid
           /\ valid =>
                LET average == PeriodTicks(fnArg.period) \div fnArg.rate IN
                  /\ fnRet.t = fnArg.clock + i.d
                  /\ fnRet.t >= fnArg.clock + average \div 2
                  /\ 2 * (fnRet.t - fnArg.clock) <= 3 * average
                  /\ fnRet.t >= fnArg.clock

\* C26's case: a trigger computed after the clock has advanced.
C26_Witness ==
    /\ fnArg.fn = "CalculateNextTrigger"
    /\ fnArg.clock = 2 /\ fnArg.rate = 1 /\ fnArg.period = "hour" /\ fnArg.rnd = 1
    /\ fnRet = [t |-> 2 + Hour \div 2 + 1, err |-> "none"]

\* A call of the named function is made in this step.
Called(fn) == fnArg'.fn = fn /\ <<fnArg, fnRet, fsVars>>' # <<fnArg, fnRet, fsVars>>

\* C27: a LoadState that follows a successful SaveState, with nothing in
\* between, returns the saved state, equal in every field, also when the count
\* is 0, LastEntryAt is the zero time and LastPersona is empty.
C27_SaveLoadRoundTrip ==
    [][(fnArg.fn = "SaveState" /\ fnRet.err = "none" /\ Called("LoadState")) =>
          /\ fnRet'.err = "none" /\ fnRet'.found
          /\ fnRet'.state = fnArg.state
          /\ \A f \in DOMAIN fnArg.state : fnRet'.state[f] = fnArg.state[f]]_vars

\* C27's case: a state with count 0, no last entry and no persona was saved
\* (the file has no last_persona key) and loaded back.
C27_Witness ==
    /\ fnArg.fn = "LoadState" /\ fnRet.found
    /\ fnRet.state.entries = 0
    /\ fnRet.state.lastEntryAt = ZeroTime
    /\ fnRet.state.lastPersona = ""
    /\ fnRet.state.pid = 11
    /\ stateFile.kind = "json"
    /\ "last_persona" \notin DOMAIN stateFile.data

\* C28: LoadState returns (nil, nil) when the state file does not exist and
\* an error, with no state, when the file exists and does not parse; it
\* leaves both files as they are.
C28_LoadAbsentOrCorrupt ==
    [][Called("LoadState") =>
          /\ stateFile' = stateFile /\ pidFile' = pidFile
          /\ stateFile.kind = "absent" => (fnRet'.err = "none" /\ ~fnRet'.found)
          /\ stateFile.kind = "empty" => (fnRet'.err = "ParseFailed" /\ ~fnRet'.found)
          /\ stateFile.kind = "json" => (fnRet'.err = "none" /\ fnRet'.found)]_vars

\* C28's case: LoadState failed on a file that a failed write left empty.
C28_Witness ==
    /\ fnArg.fn = "LoadState"
    /\ fnRet.err = "ParseFailed" /\ ~fnRet.found
    /\ stateFile.kind = "empty"

\* C29: a RemoveState that returns no error leaves no state file and
\* LoadState then returns (nil, nil); on an absent file it returns no error
\* and changes nothing; it fails only when the removal of an existing file
\* fails.
C29_RemoveStateIdempotent ==
    [][Called("RemoveState") =>
          /\ fnRet'.err = "none" =>
                /\ stateFile' = NoStateFile
                /\ LoadState(stateFile') =
                      [found |-> FALSE, state |-> ZeroState, err |-> "none"]
          /\ stateFile.kind = "absent" =>
                (fnRet'.err = "none" /\ stateFile' = stateFile)
          /\ fnRet'.err # "none" => (ioFaulty /\ stateFile' = stateFile)
          /\ pidFile' = pidFile]_vars

\* C29's case: RemoveState was called twice in a row; the second call found
\* no file and returned no error.
C29_Witness ==
    /\ fnArg = [fn |-> "RemoveState", after |-> "RemoveState", existed |-> FALSE]
    /\ fnRet.err = "none"
    /\ stateFile = NoStateFile

\* C30: a RemovePID that returns no error leaves no marker and ReadPID then
\* fails; on an absent marker it returns no error and changes nothing; the
\* state file is never touched.
C30_ReleaseIdempotent ==
    [][Called("RemovePID") =>
          /\ fnRet'.err = "none" =>
                /\ pidFile' = NoFile
                /\ ReadPID(pidFile').err = "NotExist"
          /\ ~pidFile.exists => (fnRet'.err = "none" /\ pidFile' = pidFile)
          /\ fnRet'.err # "none" => (ioFaulty /\ pidFile' = pidFile)
          /\ stateFile' = stateFile]_vars

\* C30's case: RemovePID was called twice in a row next to a saved state
\* file; the second call found no marker and returned no error.
C30_Witness ==
    /\ fnArg = [fn |-> "RemovePID", after |-> "RemovePID", existed |-> FALSE]
    /\ fnRet.err = "none"
    /\ pidFile = NoFile
    /\ stateFile.kind = "json"

\* C31: Wait returns only after cleanup has finished: whenever a Wait call
\* has returned, the loop goroutine has ended after attempting the removal of
\* the marker and of the state file (both are gone when removals do not
\* fail), and from then on the loop changes nothing.
C31_WaitAfterCleanup ==
    /\ [](\A p \in Procs :
            waited[p] =>
                /\ pc[p] = "stopped" /\ done[p]
                /\ ~ioFaulty => (pidFile = NoFile /\ stateFile = NoStateFile))
    /\ [][\A p \in Procs :
            (waited[p] /\ alive'[p]) =>
                /\ pc'[p] = pc[p] /\ st'[p] = st[p] /\ invoked'[p] = invoked[p]
                /\ pidFile' = pidFile /\ stateFile' = stateFile]_vars

\* C31's case: Wait has returned after a run that produced an entry, and
\* cleanup has removed both files.
C31_Witness ==
    \E p \in Procs :
        /\ waited[p] /\ succeeded[p] = 1
        /\ pidFile = NoFile /\ stateFile = NoStateFile

\* C32: Stopped is terminal for a Daemon: once its loop has ended (d.done is
\* closed), no later call on it, another Start included, makes the loop run
\* or invoke the work unit again, and the run goroutine does not panic.
C32_StoppedIsTerminal ==
    [][\A p \in Procs :
          (alive[p] /\ done[p]) =>
              /\ alive'[p] => invoked'[p] = invoked[p]
              /\ ~(pc'[p] \in {"loop", "parked", "working"})
              /\ ~(pc[p] = "cleanup_state" /\ pc'[p] = "panicked")]_vars

\* The loop's two calls of SaveState, before and after the open.
LoopSaveSites == {"gen_save", "gen_save_w", "run_save", "run_save_w"}

\* A SaveState call of p's loop returns an error in this step.
LoopSaveFailed(p) ==
    /\ alive[p] /\ alive'[p]
    /\ pc[p] \in LoopSaveSites /\ pc'[p] \notin LoopSaveSites
    /\ stateFile' = stateFile

\* A SaveState call of p's loop returns without error in this step.
LoopSaveDone(p) ==
    /\ alive[p] /\ alive'[p]
    /\ pc[p] \in {"gen_save_w", "run_save_w"} /\ pc'[p] \notin LoopSaveSites
    /\ stateFile' # stateFile

\* C33: a SaveState that fails inside the loop is only logged: the loop goes
\* on where a successful save would have led (to the new trigger after
\* generateEntry's save, back to the select after run's), d.state keeps the
\* new count and nextTrigger, and every later save that succeeds writes the
\* whole of d.state.
C33_LoopSaveFailure ==
    [][\A p \in Procs :
          /\ LoopSaveFailed(p) =>
                /\ pc'[p] = (IF pc[p] \in {"gen_save", "gen_save_w"}
                             THEN "resched" ELSE "loop")
                /\ st'[p] = st[p]
          /\ LoopSaveDone(p) =>
                /\ st'[p] = st[p]
                /\ LoadState(stateFile') =
                      [found |-> TRUE, state |-> st[p], err |-> "none"]]_vars

\* C33's case: both saves of a cycle failed, so the state file still holds
\* the count Start wrote, and the loop waits in its select for the new
\* trigger with the new count in memory.
C33_Witness ==
    \E p \in Procs :
        /\ pc[p] = "parked" /\ st[p].entries = 1 /\ st[p].nextTrigger > now
        /\ stateFile.kind = "json"
        /\ LoadState(stateFile).state.entries = 0

\* The personas selectPersona may return under config c.
Allowed(c) ==
    IF Len(c.personas) = 0 THEN {c.defaultPersona}
    ELSE {c.personas[i] : i \in 1 .. Len(c.personas)}

\* C34: the persona given to entry.Generate is a member of cfg.Personas when
\* that list is not empty, also on an entropy failure, and cfg.DefaultPersona
\* when it is empty; last_persona in the state file is empty or a persona
\* that was given to a call of entry.Generate that returned no error.
C34_PersonaPassed ==
    /\ [][\A p \in Procs :
            (alive'[p] /\ invoked'[p] = invoked[p] + 1) =>
                (pc'[p] = "working" /\ persona'[p] \in Allowed(cfg))]_vars
    /\ [](\A p \in Procs :
            /\ passed[p] \subseteq Allowed(cfg)
            /\ (alive[p] /\ st[p].lastPersona # "") => st[p].lastPersona \in passed[p]
            /\ (alive[p] /\ stateFile.kind = "json"
                          /\ LoadState(stateFile).state.pid = p
                          /\ LoadState(stateFile).state.lastPersona # "") =>
                   LoadState(stateFile).state.lastPersona \in passed[p])

\* C34's case: two personas are configured, the second one was given to a
\* call that succeeded, and the state file names it.
C34_Witness ==
    \E p \in Procs :
        /\ Len(cfg.personas) = 2
        /\ succeeded[p] = 1 /\ passed[p] = {cfg.personas[2]}
        /\ stateFile.kind = "json"
        /\ LoadState(stateFile).state.lastPersona = cfg.personas[2]

\* C35: the RemovePID of a client's IsRunning never removes a marker that
\* names a live process: a marker written by a Start between the client's
\* read and its removal is still there afterwards.
C35_ProbeSparesLiveMarker ==
    [][(cpc = "probe_rm" /\ cpc' = "idle" /\ LiveMarker) =>
          pidFile' = pidFile]_vars

\* C36: a stop request made before Start has returned is not lost: the loop
\* of a daemon that was asked to stop before or during Start ends without a
\* call of entry.Generate.
C36_EarlyStopNoWork ==
    \A p \in Procs : (alive[p] /\ earlyStop[p]) => invoked[p] = 0

\* C37: in a config directory that holds the marker and the state file of
\* an instance that died without cleanup, a Start call with a valid
\* configuration returns nil (unless its process is killed first) and never
\* an error; as Start launches its loop, the marker reads as the new pid and
\* the state file holds the new initial state, and from then on the state
\* file holds nothing of the old one.
C37_CrashRecovery ==
    /\ \A p \in Procs :
          (~InvalidConfig /\ alive[p] /\ pc[p] = "idle" /\ startErr[p] = "none")
              ~> (startErr[p] = "ok" \/ ~alive[p])
    /\ [][\A p \in Procs :
            /\ (~InvalidConfig /\ startErr[p] = "none") => startErr'[p] \in {"none", "ok"}
            /\ StartReturnedOk(p) => Launched(p)
            /\ LoopLaunched(p) =>
                  /\ pidFile' = FileOf(Itoa(p))
                  /\ stateFile' = StateFileOf(MarshalState(
                         [pid |-> p, startedAt |-> st[p].startedAt,
                          nextTrigger |-> nextTrig[p], entries |-> 0,
                          lastEntryAt |-> ZeroTime, lastPersona |-> ""]))]_vars
    /\ [](\A p \in Procs :
            (alive[p] /\ Launched(p) /\ stateFile.kind = "json") =>
                /\ LoadState(stateFile).state.pid = p
                /\ LoadState(stateFile).state.entries <= succeeded[p]
                /\ LoadState(stateFile).state.startedAt = st[p].startedAt)

\* C37's case: Start has returned nil in the directory the dead instance
\* left; the marker and the state file name the new process.
C37_Witness ==
    \E p \in Procs :
        /\ startErr[p] = "ok" /\ pc[p] = "loop" /\ invoked[p] = 0
        /\ pidFile = FileOf(Itoa(p))
        /\ LoadState(stateFile).state.pid = p
        /\ LoadState(stateFile).state.entries = 0

\* C38: whenever the state file was written by a live process whose loop is
\* running, the marker exists and holds the pid the state file names; and
\* started_at of a running loop's state does not change.
C38_StateFileHasMarker ==
    /\ [](\A p \in Procs :
            (alive[p] /\ InLoop(p) /\ stateFile.kind = "json"
                      /\ LoadState(stateFile).state.pid = p) =>
                ReadPID(pidFile) = [pid |-> p, err |-> "none"])
    /\ [][\A p \in Procs :
            (alive'[p] /\ InLoop(p)) => st'[p].startedAt = st[p].startedAt]_vars

\* C39: Wait returns exactly for a Daemon whose Start launched the loop (and
\* so returns nil) and whose loop has ended: d.done is closed in no other
\* state, so a Wait on a Daemon whose Start was not called, has not reached
\* the launch or returned an error does not return.
C39_WaitIffLoopEnded ==
    /\ [](\A p \in Procs :
            /\ done[p] <=> (alive[p] /\ pc[p] = "stopped")
            /\ done[p] => startErr[p] \in {"none", "ok"}
            /\ waited[p] => done[p])
    /\ [][\A p \in Procs :
            /\ (~waited[p] /\ waited'[p]) => (Launched(p) /\ pc[p] = "stopped")
            /\ (alive'[p] /\ Launched(p) /\ startErr[p] = "none") =>
                  startErr'[p] \in {"none", "ok"}
            /\ StartReturnedOk(p) => Launched(p)]_vars

\* C39's case: Wait has returned for a daemon that was stopped by its
\* context alone, before any work was done.
C39_Witness ==
    \E p \in Procs :
        /\ waited[p] /\ startErr[p] = "ok"
        /\ ctxDone[p] /\ ~shutdown[p] /\ invoked[p] = 0

====
